---- MODULE Spec2Model ----
(***************************************************************************)
(* Model of pdf-chat-ollama's retrieval pipeline: the sentence chunker of  *)
(* pdf_processor.py, the embedding client and the vector store of          *)
(* vector_store.py, the batch upload of main.py, the session log of        *)
(* history_manager.py and the chat flow of chat_engine.py.                 *)
(*                                                                         *)
(* A Python str is a sequence of one-character strings, so that strip,     *)
(* split, join and the regular expressions are computed character by       *)
(* character as the code computes them.                                    *)
(***************************************************************************)
EXTENDS Integers, Sequences, FiniteSets, TLC

VARIABLES
    tokenizer,      \* PDFProcessor.tokenizer: "exact" (tiktoken loaded) or "fallback" (None)
    text,           \* chunk_text argument: the page text
    chunk_size,     \* chunk_text argument
    overlap,        \* chunk_text argument
    chunks,         \* list returned by chunk_text
    overlap_texts,  \* the values the local overlap_text took, one per rollover
    embed_in,       \* arguments and backend behaviour of the last _get_embedding call
    embed_out,      \* its outcome: returned value or raised error, with the requests and sleeps it made
    collection,     \* the records held by the ChromaDB collection, in insertion order
    collection_live, \* whether self.collection refers to a collection that exists
    dimension,      \* dimension of the vectors the collection accepts (0: not fixed yet)
    next_id,        \* source of fresh record identifiers (uuid4)
    result,         \* outcome of the last VectorStore / ChatEngine operation
    history,        \* the persisted history: list of sessions
    current_session_id, \* ChatEngine.current_session_id
    clock,          \* datetime.now(), in seconds
    generator,      \* the generator object a stream_chat call returned, with its position
    called          \* name of the last operation applied

vars == <<tokenizer, text, chunk_size, overlap, chunks, overlap_texts,
          embed_in, embed_out, collection, collection_live, dimension, next_id,
          result, history, current_session_id, clock, generator, called>>

None == "None"

(***************************************************************************)
(* Bounds of the model.                                                    *)
(***************************************************************************)
MaxAtoms == 7        \* page texts are built from at most this many atoms
MaxChunkSize == 4    \* chunk_size ranges over 1..MaxChunkSize
MaxOverlap == 3      \* overlap ranges over 0..MaxOverlap
MaxRetries == 3      \* max_retries ranges over 0..MaxRetries
MaxBatch == 2        \* add_documents is called with at most this many chunks
MaxRecords == 3      \* the collection holds at most this many records
MaxIds == 4          \* at most this many record identifiers are ever issued
MaxUploads == 2      \* at most this many uploads of the three-page file
MaxClock == 1        \* the clock runs from second 0 to this second
MaxSessions == 2     \* the history holds at most this many sessions
MaxLines == 2        \* lines typed in one chat loop
MaxAround == 1       \* atoms before and after a special token on a page
MaxMessages == 4     \* the sessions hold at most this many messages together

(***************************************************************************)
(* Python str helpers.                                                     *)
(***************************************************************************)
Whitespace == {" ", "\t"}
Letters == {"a", "b", "d", "e", "f", "n", "o", "q", "t", "x"}
SentenceEnd == {".", "!", "?"}

IsSpace(c) == c \in Whitespace
IsLetter(c) == c \in Letters
IsPunct(c) == ~IsSpace(c) /\ ~IsLetter(c)

\* first index >= i of s whose character is not whitespace (Len(s)+1 if none)
RECURSIVE SpaceEnd(_, _)
SpaceEnd(s, i) ==
    IF i > Len(s) \/ ~IsSpace(s[i]) THEN i ELSE SpaceEnd(s, i + 1)

\* first index >= i of s whose character is not a letter
RECURSIVE LettersEnd(_, _)
LettersEnd(s, i) ==
    IF i > Len(s) \/ ~IsLetter(s[i]) THEN i ELSE LettersEnd(s, i + 1)

\* first index >= i of s whose character is not punctuation
RECURSIVE PunctEnd(_, _)
PunctEnd(s, i) ==
    IF i > Len(s) \/ ~IsPunct(s[i]) THEN i ELSE PunctEnd(s, i + 1)

\* the least and the greatest element of a non-empty set of integers
SetMin(S) == CHOOSE x \in S : \A y \in S : x <= y
SetMax(S) == CHOOSE x \in S : \A y \in S : y <= x

\* str.strip(): from the first to the last character that is no whitespace
Strip(s) ==
    LET Between(solid) ==
            IF solid = {} THEN <<>>
            ELSE SubSeq(s, CHOOSE i \in solid : \A j \in 1..(i - 1) : IsSpace(s[j]),
                           CHOOSE i \in solid : \A j \in (i + 1)..Len(s) : IsSpace(s[j]))
    IN  Between({i \in 1..Len(s) : ~IsSpace(s[i])})

\* str.split(): the maximal runs of non-whitespace characters
RECURSIVE SplitFrom(_, _, _, _)
SplitFrom(s, i, cur, acc) ==
    IF i > Len(s) THEN (IF cur = <<>> THEN acc ELSE Append(acc, cur))
    ELSE IF IsSpace(s[i])
         THEN SplitFrom(s, i + 1, <<>>, IF cur = <<>> THEN acc ELSE Append(acc, cur))
         ELSE SplitFrom(s, i + 1, Append(cur, s[i]), acc)

Split(s) == SplitFrom(s, 1, <<>>, <<>>)

\* " ".join(words)
RECURSIVE Join(_)
Join(words) ==
    IF words = <<>> THEN <<>>
    ELSE IF Len(words) = 1 THEN words[1]
    ELSE words[1] \o <<" ">> \o Join(Tail(words))

\* concatenation of a list of lists
RECURSIVE Flatten(_)
Flatten(ss) == IF ss = <<>> THEN <<>> ELSE Head(ss) \o Flatten(Tail(ss))

\* seq[-n:] of Python for n >= 0: the last n elements, and the whole list
\* when n = 0 (seq[-0:] is seq[0:]) or n >= len(seq)
LastSlice(seq, n) ==
    IF n = 0 \/ n >= Len(seq) THEN seq
    ELSE SubSeq(seq, Len(seq) - n + 1, Len(seq))

\* reversed(seq)
Reversed(seq) == [i \in 1..Len(seq) |-> seq[Len(seq) - i + 1]]

(***************************************************************************)
(* tiktoken's cl100k_base encoder, a library that count_tokens and         *)
(* _get_overlap_text call: the definitions of this section describe the    *)
(* library, not code of this repository.  encode either raises or returns  *)
(* the tokens.  Its pre-tokenizer cuts the text into pieces with the       *)
(* pattern                                                                 *)
(*   [^\r\n\p{L}\p{N}]?\p{L}+ | ?[^\s\p{L}\p{N}]+ | \s+(?!\S) | \s+        *)
(* (the alternatives that the alphabet used here can reach); the byte pair *)
(* merges inside a piece are abstracted: the short pieces of this alphabet *)
(* are one token each.                                                     *)
(***************************************************************************)
PieceEnd(s, i) ==
    IF IsLetter(s[i]) THEN LettersEnd(s, i)
    ELSE IF i < Len(s) /\ IsLetter(s[i + 1]) THEN LettersEnd(s, i + 1)
    ELSE IF IsPunct(s[i]) THEN PunctEnd(s, i)
    ELSE IF s[i] = " " /\ i < Len(s) /\ IsPunct(s[i + 1]) THEN PunctEnd(s, i + 1)
    ELSE LET e == SpaceEnd(s, i)
         IN  IF e > Len(s) THEN e
             ELSE IF e - i >= 2 THEN e - 1
             ELSE e

RECURSIVE EncodeFrom(_, _)
EncodeFrom(s, i) ==
    IF i > Len(s) THEN 0 ELSE 1 + EncodeFrom(s, PieceEnd(s, i))

\* len(self.tokenizer.encode(text)), for a text that encode accepts
EncodeLen(s) == EncodeFrom(s, 1)

\* the special token of cl100k_base that the alphabet used here can spell
EndOfText == <<"<", "|", "e", "n", "d", "o", "f", "t", "e", "x", "t", "|", ">">>

\* encode is called without allowed_special and disallowed_special, and
\* with these defaults it raises ValueError for a text in which a special
\* token occurs
encode_raises(s) ==
    \E k \in 0..(Len(s) - Len(EndOfText)) : SubSeq(s, k + 1, k + Len(EndOfText)) = EndOfText

(***************************************************************************)
(* PDFProcessor                                                            *)
(***************************************************************************)

\* count_tokens raises when it has a tokenizer and encode raises
count_tokens_raises(tok, s) == tok = "exact" /\ encode_raises(s)

\* count_tokens, when it returns: exact count, or int(len(text.split()) * 1.33)
count_tokens(tok, s) ==
    IF tok = "exact" THEN EncodeLen(s)
    ELSE (Len(Split(s)) * 133) \div 100

\* _split_into_sentences: re.split(r'(?<=[.!?])\s+', text), then strip each
\* piece and drop the empty ones
RECURSIVE ReSplitFrom(_, _, _, _)
ReSplitFrom(s, i, cur, acc) ==
    IF i > Len(s) THEN Append(acc, cur)
    ELSE IF IsSpace(s[i]) /\ i > 1 /\ s[i - 1] \in SentenceEnd
         THEN ReSplitFrom(s, SpaceEnd(s, i), <<>>, Append(acc, cur))
         ELSE ReSplitFrom(s, i + 1, Append(cur, s[i]), acc)

_split_into_sentences(s) ==
    LET pieces == ReSplitFrom(s, 1, <<>>, <<>>)
        stripped == [i \in 1..Len(pieces) |-> Strip(pieces[i])]
    IN  SelectSeq(stripped, LAMBDA p : p # <<>>)

\* _get_overlap_text raises when it gets as far as tokenizer.encode(text)
\* and encode raises; the words counted in its loop are words of text
_get_overlap_text_raises(tok, s, overlap_tokens) ==
    /\ s # <<>> /\ overlap_tokens > 0
    /\ Split(s) # <<>>
    /\ tok = "exact"
    /\ encode_raises(s)

\* the loop "for word in reversed(words)" of _get_overlap_text
RECURSIVE OverlapLoop(_, _, _, _, _)
OverlapLoop(tok, rwords, i, overlap_text, overlap_tokens) ==
    IF i > Len(rwords) THEN overlap_text
    ELSE LET test_text == rwords[i] \o <<" ">> \o overlap_text
         IN  IF count_tokens(tok, test_text) > overlap_tokens
             THEN overlap_text
             ELSE OverlapLoop(tok, rwords, i + 1, test_text, overlap_tokens)

\* _get_overlap_text
_get_overlap_text(tok, s, overlap_tokens) ==
    IF s = <<>> \/ overlap_tokens <= 0 THEN <<>>
    ELSE LET words == Split(s)
         IN  IF words = <<>> THEN <<>>
             ELSE IF tok = "exact"
                  THEN IF EncodeLen(s) <= overlap_tokens THEN s
                       ELSE Strip(OverlapLoop(tok, Reversed(words), 1, <<>>, overlap_tokens))
                  ELSE LET overlap_words == (overlap_tokens * 3) \div 4
                       IN  Join(LastSlice(words, overlap_words))

\* a chunk dictionary: text, tokens and the metadata
MakeChunk(s, tokens, metadata) ==
    [text |-> s, tokens |-> tokens, page_number |-> metadata.page_number,
     filename |-> metadata.filename, filepath |-> metadata.filepath]

\* the test "current_tokens + sentence_tokens > chunk_size and current_chunk"
Rollover(st, sentence_tokens, size) ==
    st.current_tokens + sentence_tokens > size /\ st.current_chunk # <<>>

\* the loop "for sentence in sentences" of chunk_text; st holds the locals
\* chunks, current_chunk, current_tokens, and the list of the values
\* overlap_text took.  An exception of count_tokens or _get_overlap_text
\* ends the loop and chunk_text with it (status "raise").
RECURSIVE ChunkLoop(_, _, _, _, _, _, _)
ChunkLoop(tok, sentences, i, st, metadata, size, ov) ==
    IF i > Len(sentences) THEN st
    ELSE IF count_tokens_raises(tok, sentences[i])
    THEN [st EXCEPT !.status = "raise"]
    ELSE LET sentence == sentences[i]
             sentence_tokens == count_tokens(tok, sentence)
         IN  IF Rollover(st, sentence_tokens, size)
             THEN IF _get_overlap_text_raises(tok, st.current_chunk, ov)
                  THEN [st EXCEPT !.chunks = Append(@, MakeChunk(Strip(st.current_chunk),
                                                               st.current_tokens,
                                                               metadata)),
                                  !.status = "raise"]
                  ELSE
                  LET overlap_text == _get_overlap_text(tok, st.current_chunk, ov)
                      new_chunk == overlap_text \o <<" ">> \o sentence
                  IN  IF count_tokens_raises(tok, new_chunk)
                      THEN [st EXCEPT !.chunks = Append(@,
                                                    MakeChunk(Strip(st.current_chunk),
                                                              st.current_tokens,
                                                              metadata)),
                                      !.status = "raise"]
                      ELSE
                      ChunkLoop(tok, sentences, i + 1,
                          [chunks |-> Append(st.chunks,
                                        MakeChunk(Strip(st.current_chunk),
                                                  st.current_tokens, metadata)),
                           current_chunk |-> new_chunk,
                           current_tokens |-> count_tokens(tok, new_chunk),
                           overlap_texts |-> Append(st.overlap_texts, overlap_text),
                           status |-> "return"],
                          metadata, size, ov)
             ELSE ChunkLoop(tok, sentences, i + 1,
                          [st EXCEPT
                             !.current_chunk = IF @ # <<>> THEN @ \o <<" ">> \o sentence
                                               ELSE sentence,
                             !.current_tokens = @ + sentence_tokens],
                          metadata, size, ov)

ChunkStart ==
    [chunks |-> <<>>, current_chunk |-> <<>>, current_tokens |-> 0,
     overlap_texts |-> <<>>, status |-> "return"]

\* a slip: the sentences left in current_chunk when the loop ends are not emitted
ChunkRunNoFinal(tok, s, metadata, size, ov) ==
    IF Strip(s) = <<>> THEN ChunkStart
    ELSE ChunkLoop(tok, _split_into_sentences(s), 1, ChunkStart, metadata, size, ov)

\* the body of chunk_text: the empty-text return, the loop, the final chunk
ChunkRun(tok, s, metadata, size, ov) ==
    IF Strip(s) = <<>> THEN ChunkStart
    ELSE LET st == ChunkLoop(tok, _split_into_sentences(s), 1, ChunkStart,
                             metadata, size, ov)
         IN  IF st.status = "return" /\ Strip(st.current_chunk) # <<>>
             THEN [st EXCEPT !.chunks = Append(@, MakeChunk(Strip(st.current_chunk),
                                                            st.current_tokens, metadata))]
             ELSE st

\* a slip: chunk_size is not passed on and every sentence closes the chunk
chunk_text_smallest(tok, s, metadata, size, ov) ==
    LET Returned(st) ==
            [status |-> st.status,
             chunks |-> IF st.status = "raise" THEN <<>> ELSE st.chunks]
    IN  Returned(ChunkRun(tok, s, metadata, 1, ov))

\* chunk_text: the list of chunks it returns, or the exception of the
\* tokenizer, which it does not catch
chunk_text(tok, s, metadata, size, ov) ==
    LET Returned(st) ==
            [status |-> st.status,
             chunks |-> IF st.status = "raise" THEN <<>> ELSE st.chunks]
    IN  Returned(ChunkRun(tok, s, metadata, size, ov))

(***************************************************************************)
(* VectorStore: the embedding client                                       *)
(***************************************************************************)
WordChars == Letters \cup {"_", "0", "1"}
SafePunct == {".", ",", "!", "?", ";", ":", "-", "(", ")", "[", "]", "\"", "'"}

\* re.sub(r'\s+', ' ', text): one space for every run of whitespace
CollapseWhitespace(s) ==
    LET Kept(kept) == [k \in 1..Len(kept) |-> IF IsSpace(s[kept[k]]) THEN " " ELSE s[kept[k]]]
    IN  Kept(SelectSeq([i \in 1..Len(s) |-> i],
                       LAMBDA i : ~IsSpace(s[i]) \/ i = 1 \/ ~IsSpace(s[i - 1])))

\* re.sub(r'[^\w\s\.\,\!\?\;\:\-\(\)\[\]\"\']', ' ', text)
ReplaceUnsafe(s) ==
    [i \in 1..Len(s) |->
        IF s[i] \in WordChars \cup Whitespace \cup SafePunct THEN s[i] ELSE " "]

\* text.rfind(c), as a position counted from 0; -1 when there is none
RFind(s, c) ==
    LET Last(at) ==
            IF at = {} THEN -1
            ELSE (CHOOSE i \in at : \A j \in (i + 1)..Len(s) : s[j] # c) - 1
    IN  Last({i \in 1..Len(s) : s[i] = c})

max_length == 1000

\* a slip: the length of the text is not limited
_clean_text_unlimited(s) == Strip(ReplaceUnsafe(CollapseWhitespace(s)))

\* _clean_text
_clean_text(s) ==
    LET CutAt(cut, last_period) ==
            IF last_period * 10 > max_length * 8
            THEN SubSeq(cut, 1, last_period + 1)
            ELSE cut
        Truncate(cut) == CutAt(cut, RFind(cut, "."))
        Limit(t) == IF Len(t) > max_length THEN Truncate(SubSeq(t, 1, max_length)) ELSE t
    IN  Strip(Limit(ReplaceUnsafe(CollapseWhitespace(s))))

\* the outcomes of one request to the embedding backend: a 2xx response
\* with an embedding, or requests.post raising (connection error, timeout),
\* raise_for_status raising (non-2xx), data["embedding"] raising (payload
\* without an embedding)
FailureKinds == {"connection_error", "timeout", "http_error", "no_embedding"}
Vectors == {<<0>>, <<2>>, <<0, 1>>}

OkResponse(v) == [kind |-> "ok", embedding |-> v]
FailResponse(k) == [kind |-> k, embedding |-> <<>>]
Responses == {OkResponse(v) : v \in Vectors} \cup {FailResponse(k) : k \in FailureKinds}

\* the response to the n-th request of a call; a backend script that is
\* used up refuses the connection
Respond(script, n) ==
    IF n <= Len(script) THEN script[n] ELSE FailResponse("connection_error")

PostEvent(prompt) == [ev |-> "post", prompt |-> prompt, seconds |-> 0, millis |-> 0]
SleepEvent(n) == [ev |-> "sleep", prompt |-> <<>>, seconds |-> n, millis |-> 0]
\* time.sleep(0.1) between two chunks of a batch
\* time.sleep(0.1) of add_documents, in milliseconds
delay_millis == 100

DelayEvent == [ev |-> "delay", prompt |-> <<>>, seconds |-> 0, millis |-> delay_millis]

RECURSIVE Pow2(_)
Pow2(n) == IF n = 0 THEN 1 ELSE 2 * Pow2(n - 1)

\* a slip: the exponent counts attempts from 1
wait_time_from_one(attempt) == Pow2(attempt + 1)

\* wait_time = 2 ** attempt
wait_time(attempt) == Pow2(attempt)

\* a slip: the last attempt is taken to be attempt number max_retries
is_last_attempt_late(attempt, max_retries) == ~(attempt < max_retries)

\* "attempt < max_retries - 1" negated: the attempt after which the call raises
is_last_attempt(attempt, max_retries) == ~(attempt < max_retries - 1)

\* the loop "for attempt in range(max_retries)" of _get_embedding;
\* attempt counts from 0, trace lists the requests and sleeps made so far
RECURSIVE EmbeddingLoop(_, _, _, _, _)
EmbeddingLoop(cleaned_text, max_retries, script, attempt, trace) ==
    IF attempt >= max_retries
    THEN [status |-> "return", value |-> None, cause |-> None, trace |-> trace]
    ELSE LET Attempt(response, posted) ==
                 IF response.kind = "ok"
                 THEN [status |-> "return", value |-> response.embedding,
                       cause |-> None, trace |-> posted]
                 ELSE IF ~is_last_attempt(attempt, max_retries)
                      THEN EmbeddingLoop(cleaned_text, max_retries, script, attempt + 1,
                                         Append(posted, SleepEvent(wait_time(attempt))))
                      ELSE [status |-> "raise", value |-> None,
                            cause |-> response.kind, trace |-> posted]
         IN  Attempt(Respond(script, attempt + 1),
                     Append(trace, PostEvent(cleaned_text)))

\* _get_embedding
_get_embedding(s, max_retries, script) ==
    EmbeddingLoop(_clean_text(s), max_retries, script, 0, <<>>)

default_max_retries == 3

(***************************************************************************)
(* VectorStore: the collection                                             *)
(***************************************************************************)
MAX_CONTEXT_CHUNKS == 5

Min(a, b) == IF a <= b THEN a ELSE b

\* chunk.get("tokens", 0)
GetTokens(chunk) == IF "tokens" \in DOMAIN chunk THEN chunk.tokens ELSE 0

\* the metadata dictionary add_documents builds for a chunk
MakeMetadata(chunk) ==
    [filename |-> chunk.filename, page_number |-> chunk.page_number,
     filepath |-> chunk.filepath, tokens |-> GetTokens(chunk)]

\* a slip: the delay also follows the last request
delay_follows_every(i, n) == i < n

\* "if i < len(texts) - 1", for the index i of enumerate, which counts from 0
delay_follows(i, n) == i < n - 1

\* the loop "for i, text in enumerate(texts)" of add_documents; scripts[i]
\* is what the backend answers while chunk i is embedded.  It ends at the
\* first embedding that raises.
RECURSIVE EmbedBatch(_, _, _, _, _)
EmbedBatch(texts, scripts, i, embeddings, trace) ==
    IF i > Len(texts)
    THEN [status |-> "return", embeddings |-> embeddings, cause |-> None, trace |-> trace]
    ELSE LET Embedded(e, made) ==
                 IF e.status = "raise"
                 THEN [status |-> "raise", embeddings |-> embeddings, cause |-> e.cause,
                       trace |-> made]
                 ELSE EmbedBatch(texts, scripts, i + 1, Append(embeddings, e.value),
                                 IF delay_follows(i - 1, Len(texts))
                                 THEN Append(made, DelayEvent) ELSE made)
             Traced(e) == Embedded(e, trace \o e.trace)
         IN  Traced(_get_embedding(texts[i], default_max_retries, scripts[i]))

\* collection.add is a call into the ChromaDB library: add_documents hands it
\* the whole batch and learns only whether it returned or raised.  What the
\* library does with a vector that has not the dimension of the collection
\* is not code of this repository, so the writes that return are drawn for
\* vectors of one dimension only: that of the collection, or that of the
\* first vector when the collection has none yet.
OneDimension(dim, embeddings) ==
    LET d == IF dim = 0 THEN Len(embeddings[1]) ELSE dim
    IN  \A i \in 1..Len(embeddings) : Len(embeddings[i]) = d

\* a slip: the text sent to the embedding backend is the text stored
NewRecordsCleaned(chunks_arg, embeddings, nid) ==
    [i \in 1..Len(chunks_arg) |->
        [id |-> nid + i - 1, document |-> _clean_text(chunks_arg[i].text),
         embedding |-> embeddings[i], metadata |-> MakeMetadata(chunks_arg[i])]]

\* the records collection.add appends, with ids nid, nid+1, ...
NewRecords(chunks_arg, embeddings, nid) ==
    [i \in 1..Len(chunks_arg) |->
        [id |-> nid + i - 1, document |-> chunks_arg[i].text,
         embedding |-> embeddings[i], metadata |-> MakeMetadata(chunks_arg[i])]]

\* a call of collection.add with n records; events lists the requests,
\* sleeps and delays of an add_documents call followed by its calls of
\* collection.add
AddEvent(n) == [ev |-> "add", prompt |-> <<>>, seconds |-> 0, millis |-> 0, records |-> n]

\* a slip: each chunk is written to the collection as soon as it is
\* embedded, so a later failure leaves the earlier chunks stored
add_documents_incremental(coll, dim, nid, chunks_arg, scripts, storage_ok) ==
    IF chunks_arg = <<>>
    THEN [status |-> "return", collection |-> coll, dimension |-> dim, next_id |-> nid,
          cause |-> None, embedded |-> 0, embeddings |-> <<>>, trace |-> <<>>,
          events |-> <<>>]
    ELSE LET Stored(batch, n, ok) ==
                 [status |-> IF ok THEN "return" ELSE "raise",
                  collection |-> coll \o NewRecords(SubSeq(chunks_arg, 1, n),
                                                    batch.embeddings, nid),
                  dimension |-> IF n > 0 /\ dim = 0 THEN Len(batch.embeddings[1]) ELSE dim,
                  next_id |-> nid + n,
                  cause |-> IF ok THEN None
                            ELSE IF batch.status = "raise" THEN batch.cause ELSE "storage",
                  embedded |-> n, embeddings |-> batch.embeddings,
                  trace |-> batch.trace,
                  events |-> batch.trace \o [i \in 1..n |-> AddEvent(1)]]
             Written(batch) ==
                 Stored(batch, Len(batch.embeddings),
                        batch.status = "return" /\ storage_ok)
         IN  Written(EmbedBatch([i \in 1..Len(chunks_arg) |-> chunks_arg[i].text],
                                scripts, 1, <<>>, <<>>))

\* add_documents: the state of the collection after the call, whether the
\* call returned or raised, and the requests, sleeps and delays it made
add_documents(coll, dim, nid, chunks_arg, scripts, storage_ok) ==
    IF chunks_arg = <<>>
    THEN [status |-> "return", collection |-> coll, dimension |-> dim, next_id |-> nid,
          cause |-> None, embedded |-> 0, embeddings |-> <<>>, trace |-> <<>>,
          events |-> <<>>]
    ELSE LET Written(batch) ==
                 IF batch.status = "raise"
                 THEN [status |-> "raise", collection |-> coll, dimension |-> dim,
                       next_id |-> nid, cause |-> batch.cause,
                       embedded |-> Len(batch.embeddings),
                       embeddings |-> batch.embeddings, trace |-> batch.trace,
                       events |-> batch.trace]
                 ELSE IF ~storage_ok
                 THEN [status |-> "raise", collection |-> coll, dimension |-> dim,
                       next_id |-> nid, cause |-> "storage",
                       embedded |-> Len(batch.embeddings),
                       embeddings |-> batch.embeddings, trace |-> batch.trace,
                       events |-> Append(batch.trace, AddEvent(Len(chunks_arg)))]
                 ELSE [status |-> "return",
                       collection |-> coll \o NewRecords(chunks_arg, batch.embeddings, nid),
                       dimension |-> Len(batch.embeddings[1]),
                       next_id |-> nid + Len(chunks_arg),
                       cause |-> None, embedded |-> Len(batch.embeddings),
                       embeddings |-> batch.embeddings, trace |-> batch.trace,
                       events |-> Append(batch.trace, AddEvent(Len(chunks_arg)))]
         IN  Written(EmbedBatch([i \in 1..Len(chunks_arg) |-> chunks_arg[i].text],
                                scripts, 1, <<>>, <<>>))

\* the distance of the collection's default space, squared L2
RECURSIVE Distance(_, _)
Distance(u, v) ==
    IF u = <<>> THEN 0
    ELSE (Head(u) - Head(v)) * (Head(u) - Head(v)) + Distance(Tail(u), Tail(v))

\* positions of coll ordered by ascending distance to q (insertion order
\* among equal distances)
RECURSIVE NearestFirst(_, _, _)
NearestFirst(coll, q, left) ==
    IF left = {} THEN <<>>
    ELSE LET best == CHOOSE i \in left : \A j \in left :
                        \/ Distance(coll[i].embedding, q) < Distance(coll[j].embedding, q)
                        \/ /\ Distance(coll[i].embedding, q) = Distance(coll[j].embedding, q)
                           /\ i <= j
         IN  <<best>> \o NearestFirst(coll, q, left \ {best})

\* collection.query(query_embeddings=[q], n_results=n, include=[...]): the
\* n nearest records with their distances, nearest first; fewer when fewer
\* are stored
QueryIndex(coll, q, n) ==
    LET Nearest(order) ==
            [k \in 1..Min(n, Len(coll)) |->
                [document |-> coll[order[k]].document,
                 metadata |-> coll[order[k]].metadata,
                 distance |-> Distance(coll[order[k]].embedding, q)]]
    IN  Nearest(NearestFirst(coll, q, 1..Len(coll)))

\* a slip: the distance is stored as the score
similarity_is_distance(distance) == distance

\* similarity_score = 1.0 - distance
similarity_score(distance) == 1 - distance

\* a slip: the first hit is skipped
FormatResultsFromSecond(results) ==
    [i \in 1..(Len(results) - 1) |->
        [text |-> results[i + 1].document,
         filename |-> results[i + 1].metadata.filename,
         page_number |-> results[i + 1].metadata.page_number,
         filepath |-> results[i + 1].metadata.filepath,
         tokens |-> results[i + 1].metadata.tokens,
         similarity_score |-> similarity_score(results[i + 1].distance)]]

\* the loop that builds similar_chunks from the query results
FormatResults(results) ==
    [i \in 1..Len(results) |->
        [text |-> results[i].document,
         filename |-> results[i].metadata.filename,
         page_number |-> results[i].metadata.page_number,
         filepath |-> results[i].metadata.filepath,
         tokens |-> results[i].metadata.tokens,
         similarity_score |-> similarity_score(results[i].distance)]]

\* a slip: only the empty string is rejected
is_blank_unstripped(query) == query = <<>>

\* "not query.strip()"
is_blank(query) == Strip(query) = <<>>

\* a slip: a failed embedding or index query is raised to the caller
search_similar_raising(coll, dim, query, n_results, script, index_ok) ==
    IF is_blank(query)
    THEN [status |-> "return", value |-> <<>>, trace |-> <<>>, queried |-> FALSE,
          query_embedding |-> <<>>]
    ELSE LET Queried(e) ==
                 IF e.status = "raise"
                 THEN [status |-> "raise", value |-> <<>>, trace |-> e.trace,
                       queried |-> FALSE, query_embedding |-> <<>>]
                 ELSE IF ~index_ok \/ n_results <= 0
                         \/ (dim # 0 /\ Len(e.value) # dim)
                 THEN [status |-> "raise", value |-> <<>>, trace |-> e.trace,
                       queried |-> TRUE, query_embedding |-> e.value]
                 ELSE [status |-> "return",
                       value |-> FormatResults(QueryIndex(coll, e.value, n_results)),
                       trace |-> e.trace, queried |-> TRUE, query_embedding |-> e.value]
         IN  Queried(_get_embedding(query, default_max_retries, script))

\* search_similar: the returned list, the requests made to the backend and
\* whether collection.query was called.  The index query raises when the
\* storage fails (index_ok false), when n_results is not positive and when
\* the query vector has not the dimension of the collection.
search_similar(coll, dim, query, n_results, script, index_ok) ==
    IF is_blank(query)
    THEN [status |-> "return", value |-> <<>>, trace |-> <<>>, queried |-> FALSE,
          query_embedding |-> <<>>]
    ELSE LET Queried(e) ==
                 IF e.status = "raise"
                 THEN [status |-> "return", value |-> <<>>, trace |-> e.trace,
                       queried |-> FALSE, query_embedding |-> <<>>]
                 ELSE IF ~index_ok \/ n_results <= 0
                         \/ (dim # 0 /\ Len(e.value) # dim)
                 THEN [status |-> "return", value |-> <<>>, trace |-> e.trace,
                       queried |-> TRUE, query_embedding |-> e.value]
                 ELSE [status |-> "return",
                       value |-> FormatResults(QueryIndex(coll, e.value, n_results)),
                       trace |-> e.trace, queried |-> TRUE, query_embedding |-> e.value]
         IN  Queried(_get_embedding(query, default_max_retries, script))

\* a slip: only the first matching record is selected
GetWhereFirst(coll, filename) ==
    LET First(matching) == IF matching = <<>> THEN <<>> ELSE <<matching[1]>>
    IN  First(SelectSeq(coll, LAMBDA r : r.metadata.filename = filename))

\* collection.get(where={"filename": filename}): the records whose filename
\* metadata equals the argument, in insertion order
GetWhere(coll, filename) ==
    SelectSeq(coll, LAMBDA r : r.metadata.filename = filename)

\* get_collection_stats: "total_chunks"; 0 when collection.count() raises
get_collection_stats(coll, count_ok) == IF count_ok THEN Len(coll) ELSE 0

\* the dictionaries get_documents_by_filename builds from the records
FormatDocuments(records) ==
    [i \in 1..Len(records) |->
        [text |-> records[i].document,
         filename |-> records[i].metadata.filename,
         page_number |-> records[i].metadata.page_number,
         filepath |-> records[i].metadata.filepath,
         tokens |-> records[i].metadata.tokens]]

\* get_documents_by_filename: [] when collection.get raises
get_documents_by_filename(coll, filename, get_ok) ==
    IF get_ok THEN FormatDocuments(GetWhere(coll, filename)) ELSE <<>>

\* a slip: the records left after a deletion are numbered anew
delete_documents_renumbering(coll, filename, get_ok, delete_ok) ==
    LET Deleted(found, kept) ==
            IF ~get_ok \/ found = <<>> \/ ~delete_ok
            THEN [value |-> 0, collection |-> coll]
            ELSE [value |-> Len(found),
                  collection |-> [i \in 1..Len(kept) |-> [kept[i] EXCEPT !.id = i]]]
    IN  Deleted(GetWhere(coll, filename),
                SelectSeq(coll, LAMBDA r : r.metadata.filename # filename))

\* delete_documents_by_filename: the number of records deleted and the
\* collection after the call.  collection.get or collection.delete raising
\* is answered by 0; collection.delete(ids=...) removes the listed records
\* or, when it raises, none.
delete_documents_by_filename(coll, filename, get_ok, delete_ok) ==
    LET Deleted(found) ==
            IF ~get_ok \/ found = <<>> \/ ~delete_ok
            THEN [value |-> 0, collection |-> coll]
            ELSE [value |-> Len(found),
                  collection |-> SelectSeq(coll, LAMBDA r :
                                    \A i \in 1..Len(found) : found[i].id # r.id)]
    IN  Deleted(GetWhere(coll, filename))

\* what the storage does during clear_collection: both calls succeed,
\* delete_collection raises, or create_collection raises
ClearOutcomes == {"ok", "delete_fails", "create_fails"}

\* a slip: a failure of the storage is logged and not raised
clear_collection_swallowing(coll, dim, live, outcome) ==
    IF ~live \/ outcome = "delete_fails"
    THEN [status |-> "return", collection |-> coll, dimension |-> dim, live |-> live]
    ELSE IF outcome = "create_fails"
    THEN [status |-> "return", collection |-> <<>>, dimension |-> 0, live |-> FALSE]
    ELSE [status |-> "return", collection |-> <<>>, dimension |-> 0, live |-> TRUE]

\* clear_collection: delete_collection drops the records, create_collection
\* makes the empty collection self.collection then refers to.  When
\* create_collection raises, self.collection still refers to the collection
\* that was dropped.
clear_collection(coll, dim, live, outcome) ==
    IF ~live \/ outcome = "delete_fails"
    THEN [status |-> "raise", collection |-> coll, dimension |-> dim, live |-> live]
    ELSE IF outcome = "create_fails"
    THEN [status |-> "raise", collection |-> <<>>, dimension |-> 0, live |-> FALSE]
    ELSE [status |-> "return", collection |-> <<>>, dimension |-> 0, live |-> TRUE]

(***************************************************************************)
(* PDFProcessor.process_pdf and PDFChatCLI.upload_pdfs.  A file is a       *)
(* record: its name and path, whether the path exists and ends in .pdf,    *)
(* and the texts page.extract_text() gives for its pages.                  *)
(***************************************************************************)
CHUNK_SIZE == 1000
CHUNK_OVERLAP == 128

\* the loop over pdf.pages of extract_text_from_pdf: the pages with text,
\* stripped, numbered from 1 as in the file
RECURSIVE ExtractPages(_, _)
ExtractPages(file, page_num) ==
    IF page_num > Len(file.pages) THEN <<>>
    ELSE IF Strip(file.pages[page_num]) # <<>>
    THEN <<[text |-> Strip(file.pages[page_num]), page_number |-> page_num,
            filename |-> file.name, filepath |-> file.path]>>
             \o ExtractPages(file, page_num + 1)
    ELSE ExtractPages(file, page_num + 1)

\* extract_text_from_pdf: raises when the file is missing or pdfplumber fails
extract_text_from_pdf(file, extraction_ok) ==
    IF ~file.exists \/ ~extraction_ok THEN [status |-> "raise", pages |-> <<>>]
    ELSE [status |-> "return", pages |-> ExtractPages(file, 1)]

\* a slip: the chunks of a page are put before those of the earlier pages
process_pdf_prepending(tok, file, extraction_ok) ==
    LET Extended(per_page) ==
            IF \E p \in 1..Len(per_page) : per_page[p].status = "raise"
            THEN [status |-> "raise", chunks |-> <<>>]
            ELSE [status |-> "return",
                  chunks |-> Flatten([p \in 1..Len(per_page) |-> per_page[p].chunks])]
        Chunked(extracted) ==
            IF extracted.status = "raise" THEN [status |-> "raise", chunks |-> <<>>]
            ELSE Extended([p \in 1..Len(extracted.pages) |->
                                chunk_text(tok,
                                    extracted.pages[Len(extracted.pages) + 1 - p].text,
                                    [page_number |->
                                        extracted.pages[Len(extracted.pages) + 1 - p].page_number,
                                     filename |->
                                        extracted.pages[Len(extracted.pages) + 1 - p].filename,
                                     filepath |->
                                        extracted.pages[Len(extracted.pages) + 1 - p].filepath],
                                    CHUNK_SIZE, CHUNK_OVERLAP)])
    IN  Chunked(extract_text_from_pdf(file, extraction_ok))

\* process_pdf: the chunks of all pages, in page order, chunked with the
\* default chunk size and overlap; an exception of extract_text_from_pdf
\* or of chunk_text on a page is not caught
process_pdf(tok, file, extraction_ok) ==
    LET Extended(per_page) ==
            IF \E p \in 1..Len(per_page) : per_page[p].status = "raise"
            THEN [status |-> "raise", chunks |-> <<>>]
            ELSE [status |-> "return",
                  chunks |-> Flatten([p \in 1..Len(per_page) |-> per_page[p].chunks])]
        Chunked(extracted) ==
            IF extracted.status = "raise" THEN [status |-> "raise", chunks |-> <<>>]
            ELSE Extended([p \in 1..Len(extracted.pages) |->
                                chunk_text(tok, extracted.pages[p].text,
                                           [page_number |-> extracted.pages[p].page_number,
                                            filename |-> extracted.pages[p].filename,
                                            filepath |-> extracted.pages[p].filepath],
                                           CHUNK_SIZE, CHUNK_OVERLAP)])
    IN  Chunked(extract_text_from_pdf(file, extraction_ok))

\* the first loop of upload_pdfs: the positions of the paths that exist and
\* end in .pdf
ValidPaths(pdf_paths) ==
    SelectSeq([i \in 1..Len(pdf_paths) |-> i],
              LAMBDA i : pdf_paths[i].exists /\ pdf_paths[i].is_pdf)

\* what the embedding backend answers for the chunks of one file: every
\* chunk is embedded at once, but chunk fail_at is failed three times
ScriptsFor(fail_at, n) ==
    [k \in 1..n |->
        IF k = fail_at
        THEN <<FailResponse("timeout"), FailResponse("timeout"), FailResponse("timeout")>>
        ELSE <<OkResponse(<<0>>)>>]

\* the loop "for pdf_path in valid_paths" of upload_pdfs with its
\* try/except: st holds the store, the outcome shown for each file and the
\* calls of add_documents made
RECURSIVE UploadLoop(_, _, _, _, _, _, _)
UploadLoop(tok, pdf_paths, runs, valid, k, live, st) ==
    IF k > Len(valid) THEN st
    ELSE LET Shown(outcome, n) ==
                 Append(st.outcomes, [path |-> valid[k], outcome |-> outcome, chunks |-> n])
             Called(p, r) ==
                 Append(st.calls, [path |-> valid[k], chunks |-> p.chunks,
                                   status |-> r.status, events |-> r.events])
             Added(p, r) ==
                 IF r.status = "raise"
                 THEN [st EXCEPT !.outcomes = Shown("failed", 0), !.calls = Called(p, r)]
                 ELSE [collection |-> r.collection, dimension |-> r.dimension,
                       next_id |-> r.next_id,
                       outcomes |-> Shown("processed", Len(p.chunks)),
                       calls |-> Called(p, r)]
             Processed(p, run) ==
                 IF p.status = "raise" THEN [st EXCEPT !.outcomes = Shown("failed", 0)]
                 ELSE IF p.chunks = <<>> THEN [st EXCEPT !.outcomes = Shown("no_text", 0)]
                 ELSE Added(p, add_documents(st.collection, st.dimension, st.next_id,
                                             p.chunks,
                                             ScriptsFor(run.fail_at, Len(p.chunks)),
                                             run.storage_ok /\ live))
         IN  UploadLoop(tok, pdf_paths, runs, valid, k + 1, live,
                        Processed(process_pdf(tok, pdf_paths[valid[k]],
                                              runs[valid[k]].extraction_ok),
                                  runs[valid[k]]))

\* a slip: the first file that fails ends the upload
upload_pdfs_stopping(tok, pdf_paths, runs, coll, dim, nid, live) ==
    LET start == [collection |-> coll, dimension |-> dim, next_id |-> nid,
                  outcomes |-> <<>>, calls |-> <<>>]
        Until(valid, done) ==
            IF \E k \in 1..Len(done) : done[k].outcome = "failed"
            THEN SubSeq(valid, 1, CHOOSE k \in 1..Len(done) :
                                     /\ done[k].outcome = "failed"
                                     /\ \A j \in 1..(k - 1) : done[j].outcome # "failed")
            ELSE valid
        Stopped(valid) ==
            UploadLoop(tok, pdf_paths, runs,
                       Until(valid, UploadLoop(tok, pdf_paths, runs, valid, 1, live,
                                               start).outcomes),
                       1, live, start)
    IN  Stopped(ValidPaths(pdf_paths))

\* upload_pdfs: the store after the upload and what was shown for each
\* valid file.  runs[i] tells how the environment behaves while file i is
\* processed: whether pdfplumber reads it, which chunk the embedding
\* backend fails on (0: none) and whether the storage accepts the write.
upload_pdfs(tok, pdf_paths, runs, coll, dim, nid, live) ==
    UploadLoop(tok, pdf_paths, runs, ValidPaths(pdf_paths), 1, live,
               [collection |-> coll, dimension |-> dim, next_id |-> nid,
                outcomes |-> <<>>, calls |-> <<>>])

(***************************************************************************)
(* HistoryManager and ChatEngine                                           *)
(***************************************************************************)
NoInfoResponse ==
    <<"I couldn't find any relevant information in the uploaded documents to answer your question.">>
\* f"I encountered an error while processing your question: {str(e)}"
ErrorResponse(e) == <<"I encountered an error while processing your question: ", e>>
\* response["message"]["content"] of a chat completion
ModelAnswer == <<"answer">>

\* create_session: the id is the clock second, followed by the name if any
SessionId(now, session_name) ==
    IF session_name = None THEN <<now>> ELSE <<now, session_name>>

\* "name": session_name or f"Session {session_id}"
SessionName(session_id, session_name) ==
    IF session_name = None THEN <<"Session ">> \o session_id ELSE <<session_name>>

create_session(hist, now, session_name) ==
    [id |-> SessionId(now, session_name),
     history |-> Append(hist, [id |-> SessionId(now, session_name),
                               name |-> SessionName(SessionId(now, session_name),
                                                    session_name),
                               messages |-> <<>>])]

\* the first session of the history with the given id (0 if none)
FindSession(hist, session_id) ==
    IF \E i \in 1..Len(hist) : hist[i].id = session_id
    THEN CHOOSE i \in 1..Len(hist) :
            /\ hist[i].id = session_id
            /\ \A j \in 1..(i - 1) : hist[j].id # session_id
    ELSE 0

\* a slip: a session is created for an id that is not found
add_message_creating(hist, session_id, role, content, sources) ==
    LET AddTo(i) ==
            IF i = 0
            THEN [status |-> "return",
                  history |-> Append(hist, [id |-> session_id,
                                            name |-> SessionName(session_id, None),
                                            messages |-> <<[role |-> role,
                                                            content |-> content,
                                                            sources |-> sources]>>])]
            ELSE [status |-> "return",
                  history |-> [hist EXCEPT ![i].messages =
                                  Append(@, [role |-> role, content |-> content,
                                             sources |-> sources])]]
    IN  AddTo(FindSession(hist, session_id))

\* add_message: raises ValueError when the session is not found
add_message(hist, session_id, role, content, sources) ==
    LET AddTo(i) ==
            IF i = 0 THEN [status |-> "raise", history |-> hist]
            ELSE [status |-> "return",
                  history |-> [hist EXCEPT ![i].messages =
                                  Append(@, [role |-> role, content |-> content,
                                             sources |-> sources])]]
    IN  AddTo(FindSession(hist, session_id))

\* delete_session: every session with the id is removed; the value tells
\* whether there was one
delete_session(hist, session_id) ==
    LET Kept(kept) ==
            [value |-> Len(kept) < Len(hist),
             history |-> IF Len(kept) < Len(hist) THEN kept ELSE hist]
    IN  Kept(SelectSeq(hist, LAMBDA session : session.id # session_id))

\* clear_all_history
clear_all_history == <<>>

\* PDFChatCLI.clear_data: nothing is done unless the user confirms; then
\* clear_collection is called and, when it returns, clear_all_history; an
\* exception of the storage is shown and the history is left as it is
clear_data(coll, dim, live, hist, outcome, confirmed) ==
    IF ~confirmed
    THEN [status |-> "return", shown |-> "none", collection |-> coll,
          dimension |-> dim, live |-> live, history |-> hist]
    ELSE LET Cleared(r) ==
                 [status |-> "return",
                  shown |-> IF r.status = "raise" THEN "error" ELSE "cleared",
                  collection |-> r.collection, dimension |-> r.dimension,
                  live |-> r.live,
                  history |-> IF r.status = "raise" THEN hist ELSE clear_all_history]
         IN  Cleared(clear_collection(coll, dim, live, outcome))

\* import_session: None for a file that cannot be read as JSON, that lacks
\* one of the keys, or whose id a session of the history has; otherwise
\* the session is appended and its id returned
import_session(hist, file) ==
    IF ~file.readable \/ ~file.complete
    THEN [value |-> None, history |-> hist]
    ELSE IF \E i \in 1..Len(hist) : hist[i].id = file.session.id
    THEN [value |-> None, history |-> hist]
    ELSE [value |-> file.session.id, history |-> Append(hist, file.session)]

\* load_session: the session becomes the current one when get_session
\* finds a session with the id in the history; the value tells whether it
\* did
load_session(hist, current, session_id) ==
    IF FindSession(hist, session_id) # 0
    THEN [value |-> TRUE, current_session_id |-> session_id]
    ELSE [value |-> FALSE, current_session_id |-> current]

\* "preview": text[:200] + "..." if len(text) > 200 else text
Preview(s) == IF Len(s) > 200 THEN SubSeq(s, 1, 200) \o <<".", ".", ".">> ELSE s

\* _format_sources
_format_sources(found) ==
    [i \in 1..Len(found) |->
        [filename |-> found[i].filename, page_number |-> found[i].page_number,
         similarity_score |-> found[i].similarity_score,
         preview |-> Preview(found[i].text)]]

\* str(n) for a natural number n
Digits == <<"0", "1", "2", "3", "4", "5", "6", "7", "8", "9">>

RECURSIVE Decimal(_)
Decimal(n) ==
    IF n < 10 THEN <<Digits[n + 1]>>
    ELSE Decimal(n \div 10) \o <<Digits[(n % 10) + 1]>>

\* "\n".join(parts)
RECURSIVE JoinLines(_)
JoinLines(parts) ==
    IF parts = <<>> THEN <<>>
    ELSE IF Len(parts) = 1 THEN parts[1]
    ELSE parts[1] \o <<"\n">> \o JoinLines(Tail(parts))

\* f"[Source: {chunk['filename']}, Page {chunk['page_number']}]"
SourceInfo(chunk) ==
    <<"[Source: ", chunk.filename, ", Page ">> \o Decimal(chunk.page_number) \o <<"]">>

\* f"Document {i} {source_info}:\n{chunk['text']}\n"
ContextPart(i, chunk) ==
    <<"Document ">> \o Decimal(i) \o <<" ">> \o SourceInfo(chunk) \o <<":", "\n">>
        \o chunk.text \o <<"\n">>

NoRelevantDocuments == <<"No relevant documents found.">>

\* a slip: enumerate(chunks) counts from 0
_format_context_from_zero(found) ==
    IF found = <<>> THEN NoRelevantDocuments
    ELSE JoinLines([i \in 1..Len(found) |-> ContextPart(i - 1, found[i])])

\* _format_context
_format_context(found) ==
    IF found = <<>> THEN NoRelevantDocuments
    ELSE JoinLines([i \in 1..Len(found) |-> ContextPart(i, found[i])])

\* the value of the local variable context of chat while it is unbound
NoContext == <<>>

\* the except branch of chat: the error response is logged and returned;
\* add_message raising there leaves chat by an exception.  used lists the
\* chunks that had been put into the prompt.
ChatFailed(hist, session_id, e, search, used) ==
    LET Logged(logged) ==
            [status |-> logged.status, history |-> logged.history,
             response |-> ErrorResponse(e), sources |-> <<>>, error |-> TRUE,
             completion_called |-> e = "completion failed", used_chunks |-> used,
             context |-> IF e = "completion failed" THEN _format_context(used)
                         ELSE NoContext,
             search |-> search]
    IN  Logged(add_message(hist, session_id, "assistant", ErrorResponse(e), <<>>))

NoSearch == [status |-> "none", value |-> <<>>, trace |-> <<>>, queried |-> FALSE,
             query_embedding |-> <<>>]

\* chat: llm_ok tells whether ollama.chat answers or raises
chat(hist, session_id, coll, dim, user_query, script, index_ok, llm_ok) ==
    IF session_id = None
    THEN [status |-> "raise", history |-> hist, response |-> <<>>, sources |-> <<>>,
          error |-> FALSE, completion_called |-> FALSE, used_chunks |-> <<>>,
          context |-> NoContext, search |-> NoSearch]
    ELSE LET Answered(asked, search, relevant_chunks, response, sources, completed) ==
                 [status |-> "return",
                  history |-> add_message(asked.history, session_id, "assistant",
                                          response, sources).history,
                  response |-> response, sources |-> sources, error |-> FALSE,
                  completion_called |-> completed,
                  used_chunks |-> IF completed THEN relevant_chunks ELSE <<>>,
                  context |-> IF completed THEN _format_context(relevant_chunks)
                              ELSE NoContext,
                  search |-> search]
             Searched(asked, search, relevant_chunks) ==
                 IF asked.status = "raise"
                 THEN ChatFailed(hist, session_id, "Session not found", NoSearch, <<>>)
                 ELSE IF search.status = "raise"
                 THEN ChatFailed(asked.history, session_id, "search failed", search, <<>>)
                 ELSE IF relevant_chunks = <<>>
                 THEN Answered(asked, search, relevant_chunks, NoInfoResponse, <<>>, FALSE)
                 ELSE IF ~llm_ok
                 THEN ChatFailed(asked.history, session_id, "completion failed", search,
                                 relevant_chunks)
                 ELSE Answered(asked, search, relevant_chunks, ModelAnswer,
                               _format_sources(relevant_chunks), TRUE)
             Asked(asked, search) == Searched(asked, search, search.value)
         IN  Asked(add_message(hist, session_id, "user", user_query, <<>>),
                   search_similar(coll, dim, user_query, MAX_CONTEXT_CHUNKS,
                                  script, index_ok))

\* the words that end the chat loop: ['exit', 'quit', 'q']
ExitWords == {<<"e", "x", "i", "t">>, <<"q", "u", "i", "t">>, <<"q">>}

\* str.lower() on the letters typed at the chat prompt
Lower(s) == [i \in 1..Len(s) |-> IF s[i] = "Q" THEN "q" ELSE s[i]]

\* the loop "while True" of start_chat: lines[i] is what the user types at
\* the i-th prompt, with the answers the backends give to it; the loop is
\* left at an exit word, and by KeyboardInterrupt when the lines are used
\* up.  shown lists what the loop displays.
RECURSIVE ChatLoop(_, _, _, _, _, _, _, _)
ChatLoop(hist, session_id, coll, dim, live, lines, i, shown) ==
    IF i > Len(lines) THEN [history |-> hist, shown |-> shown]
    ELSE IF Lower(lines[i].user_input) \in ExitWords
    THEN [history |-> hist, shown |-> shown]
    ELSE IF Strip(lines[i].user_input) = <<>>
    THEN ChatLoop(hist, session_id, coll, dim, live, lines, i + 1, shown)
    ELSE LET Displayed(r) ==
                 ChatLoop(r.history, session_id, coll, dim, live, lines, i + 1,
                          Append(shown,
                                 IF r.status = "raise"
                                 THEN [kind |-> "error", response |-> <<>>,
                                       sources |-> <<>>]
                                 ELSE [kind |-> "assistant", response |-> r.response,
                                       sources |-> r.sources]))
         IN  Displayed(chat(hist, session_id, coll, dim, lines[i].user_input,
                            lines[i].script, lines[i].index_ok /\ live,
                            lines[i].llm_ok))

\* PDFChatCLI.start_chat: nothing is started when ollama.list() raises or
\* the collection counts no chunk; otherwise a session without a name is
\* started and the lines typed after it are answered in it
start_chat(hist, current, now, coll, dim, live, connection_ok, count_ok, lines) ==
    IF ~connection_ok
    THEN [started |-> FALSE, refused |-> "connection", history |-> hist,
          current_session_id |-> current, shown |-> <<>>]
    ELSE IF get_collection_stats(coll, count_ok /\ live) = 0
    THEN [started |-> FALSE, refused |-> "documents", history |-> hist,
          current_session_id |-> current, shown |-> <<>>]
    ELSE LET Ended(session_id, r) ==
                 [started |-> TRUE, refused |-> "none", history |-> r.history,
                  current_session_id |-> session_id, shown |-> r.shown]
             Started(r) ==
                 Ended(r.id, ChatLoop(r.history, r.id, coll, dim, live, lines, 1, <<>>))
         IN  Started(create_session(hist, now, None))

\* ChatEngine.get_session_history
get_session_history(hist, current) ==
    IF current = None \/ FindSession(hist, current) = 0 THEN <<>>
    ELSE hist[FindSession(hist, current)].messages

\* PDFChatCLI.load_session: the session becomes the current one and its
\* last ten messages are displayed, each cut to 200 characters and
\* followed by "..."
cli_load_session(hist, current, session_id) ==
    LET Line(msg) ==
            [role |-> msg.role,
             content |-> SubSeq(msg.content, 1, Min(200, Len(msg.content)))
                            \o <<".", ".", ".">>]
        Shown(messages) == [i \in 1..Len(messages) |-> Line(messages[i])]
        Loaded(r) ==
            [value |-> r.value, current_session_id |-> r.current_session_id,
             shown |-> IF r.value
                       THEN Shown(LastSlice(get_session_history(
                                                hist, r.current_session_id), 10))
                       ELSE <<>>]
    IN  Loaded(load_session(hist, current, session_id))


\* the local variables of a stream_chat generator that has not run yet
NoStream == [chunks |-> <<>>, raises |-> FALSE]

NewGenerator(user_query) ==
    [state |-> "created", at |-> "start", query |-> user_query,
     started_in |-> None, stream |-> NoStream, rest |-> <<>>, sources |-> <<>>,
     response_text |-> <<>>, yielded |-> <<>>, logged |-> <<>>,
     completion_called |-> FALSE]

\* the element yielded for a chunk of the backend stream that has content
StreamElement(chunk, sources, session_id) ==
    [response |-> chunk.content,
     sources |-> IF chunk.done THEN sources ELSE <<>>,
     session_id |-> session_id, error |-> FALSE, done |-> chunk.done]

ErrorElement(e, session_id) ==
    [response |-> ErrorResponse(e), sources |-> <<>>, session_id |-> session_id,
     error |-> TRUE, done |-> TRUE]

\* an add_message call of the generator that returned
LogEntry(session_id, role, content) ==
    [session_id |-> session_id, role |-> role, content |-> content]

\* the except branch of stream_chat: the error response is logged in the
\* session that is current now and yielded; add_message raising there
\* leaves the generator by that exception
StreamFailed(hist, session_id, e, gen) ==
    LET Logged(logged) ==
            IF logged.status = "raise"
            THEN [status |-> "raise", history |-> hist, value |-> <<>>,
                  generator |-> [gen EXCEPT !.state = "ended"]]
            ELSE [status |-> "yield", history |-> logged.history,
                  value |-> ErrorElement(e, session_id),
                  generator |-> [gen EXCEPT !.state = "suspended", !.at = "error",
                                            !.yielded = Append(@, ErrorElement(e, session_id)),
                                            !.logged = Append(@, LogEntry(session_id, "assistant",
                                                                          ErrorResponse(e)))]]
    IN  Logged(add_message(hist, session_id, "assistant", ErrorResponse(e), <<>>))

\* the loop "for chunk in stream" of stream_chat, from the chunk the
\* generator has come to, up to its next yield: a chunk with content is
\* added to response_text and yielded with its done flag, a chunk without
\* content is skipped, and after the last chunk the answer is logged in the
\* session that is current then and the generator ends
RECURSIVE StreamLoop(_, _, _)
StreamLoop(hist, session_id, gen) ==
    IF gen.rest = <<>>
    THEN IF gen.stream.raises
         THEN StreamFailed(hist, session_id, "completion failed", gen)
         ELSE LET Logged(logged) ==
                      IF logged.status = "raise"
                      THEN StreamFailed(hist, session_id, "Session not found", gen)
                      ELSE [status |-> "stop", history |-> logged.history, value |-> <<>>,
                            generator |->
                                [gen EXCEPT !.state = "ended",
                                            !.logged = Append(@, LogEntry(session_id, "assistant",
                                                                          gen.response_text))]]
              IN  Logged(add_message(hist, session_id, "assistant", gen.response_text,
                                     gen.sources))
    ELSE IF Head(gen.rest).content # <<>>
    THEN [status |-> "yield", history |-> hist,
          value |-> StreamElement(Head(gen.rest), gen.sources, session_id),
          generator |-> [gen EXCEPT !.state = "suspended", !.at = "chunk",
                                    !.rest = Tail(@),
                                    !.response_text = @ \o Head(gen.rest).content,
                                    !.yielded = Append(@, StreamElement(Head(gen.rest),
                                                                        gen.sources,
                                                                        session_id))]]
    ELSE StreamLoop(hist, session_id, [gen EXCEPT !.rest = Tail(@)])

\* the body of stream_chat from its start to its first yield.
\* stream.chunks are the chunks ollama.chat streams and stream.raises tells
\* whether the stream raises after them.
stream_chat(hist, session_id, coll, dim, gen, script, index_ok, stream) ==
    IF session_id = None
    THEN [status |-> "raise", history |-> hist, value |-> <<>>,
          generator |-> [gen EXCEPT !.state = "ended"]]
    ELSE LET Searched(asked, started, relevant_chunks) ==
                 IF asked.status = "raise"
                 THEN StreamFailed(hist, session_id, "Session not found", started)
                 ELSE IF relevant_chunks = <<>>
                 THEN [status |-> "yield",
                       history |-> add_message(asked.history, session_id, "assistant",
                                               NoInfoResponse, <<>>).history,
                       value |-> [response |-> NoInfoResponse, sources |-> <<>>,
                                  session_id |-> session_id, error |-> FALSE,
                                  done |-> TRUE],
                       generator |->
                           [started EXCEPT
                               !.state = "suspended", !.at = "no_info",
                               !.yielded = <<[response |-> NoInfoResponse, sources |-> <<>>,
                                              session_id |-> session_id, error |-> FALSE,
                                              done |-> TRUE]>>,
                               !.logged = <<LogEntry(session_id, "user", gen.query),
                                            LogEntry(session_id, "assistant",
                                                     NoInfoResponse)>>]]
                 ELSE StreamLoop(asked.history, session_id,
                                 [started EXCEPT
                                     !.stream = stream, !.rest = stream.chunks,
                                     !.sources = _format_sources(relevant_chunks),
                                     !.completion_called = TRUE,
                                     !.logged = <<LogEntry(session_id, "user", gen.query)>>])
         IN  Searched(add_message(hist, session_id, "user", gen.query, <<>>),
                      [gen EXCEPT !.started_in = session_id],
                      search_similar(coll, dim, gen.query, MAX_CONTEXT_CHUNKS,
                                     script, index_ok).value)

\* next() of a generator that is suspended at a yield: after the
\* no-information answer and after the error response the body ends, and
\* after a chunk the loop goes on
stream_resume(hist, session_id, gen) ==
    IF gen.at = "chunk" THEN StreamLoop(hist, session_id, gen)
    ELSE [status |-> "stop", history |-> hist, value |-> <<>>,
          generator |-> [gen EXCEPT !.state = "ended"]]

(***************************************************************************)
(* Inputs.                                                                 *)
(***************************************************************************)
\* page texts are concatenations of these pieces
Atoms == {<<"a">>, <<"b", ".">>, <<" ">>}

RECURSIVE AtomSeqs(_)
AtomSeqs(n) ==
    IF n = 0 THEN {<<>>}
    ELSE LET shorter == AtomSeqs(n - 1)
         IN  shorter \cup {Append(q, a) : q \in {r \in shorter : Len(r) = n - 1}, a \in Atoms}

Texts == {Flatten(q) : q \in AtomSeqs(MaxAtoms)}

PageMeta == [page_number |-> 1, filename |-> "f1", filepath |-> "/d/f1"]

Idle == [op |-> "none"]

\* no stream_chat generator is held
NoGenerator == [state |-> "none"]

\* the state of the parts of the program a specification leaves alone
ChunkerIdle ==
    /\ tokenizer = "fallback" /\ text = <<>> /\ chunk_size = 1 /\ overlap = 0
    /\ chunks = <<>> /\ overlap_texts = <<>>

EmbedIdle == embed_in = Idle /\ embed_out = Idle

StoreIdle ==
    /\ collection = <<>> /\ collection_live = TRUE /\ dimension = 0 /\ next_id = 1
    /\ result = Idle
    /\ history = <<>> /\ current_session_id = None /\ clock = 0
    /\ generator = NoGenerator

(***************************************************************************)
(* The chunker applied to one page: the inputs are drawn at the start and  *)
(* chunk_text is applied to them.                                          *)
(***************************************************************************)
InitChunk ==
    /\ tokenizer \in {"exact", "fallback"}
    /\ text \in Texts
    /\ chunk_size \in 1..MaxChunkSize
    /\ overlap \in 0..MaxOverlap
    /\ chunks = <<>> /\ overlap_texts = <<>>
    /\ EmbedIdle /\ StoreIdle
    /\ called = "none"

\* a call of chunk_text; overlap_texts lists the values its local
\* overlap_text took when it returned
ChunkText ==
    /\ called = "none"
    /\ LET Outcome(r) ==
               /\ chunks' = r.chunks
               /\ result' = [op |-> "chunk_text", status |-> r.status]
               /\ overlap_texts' =
                      IF r.status = "raise" THEN <<>>
                      ELSE ChunkRun(tokenizer, text, PageMeta, chunk_size,
                                    overlap).overlap_texts
       IN  Outcome(chunk_text(tokenizer, text, PageMeta, chunk_size, overlap))
    /\ called' = "chunk_text"
    /\ UNCHANGED <<generator, tokenizer, text, chunk_size, overlap, embed_in, embed_out,
                   collection, collection_live, dimension, next_id, history,
                   current_session_id, clock>>

NextChunk == ChunkText

SpecChunk == InitChunk /\ [][NextChunk]_vars

(***************************************************************************)
(* Properties of the chunker.                                              *)
(***************************************************************************)
Words(s) == Split(s)

IsPrefixOf(p, s) == Len(p) <= Len(s) /\ SubSeq(s, 1, Len(p)) = p
IsSuffixOf(p, s) == Len(p) <= Len(s) /\ SubSeq(s, Len(s) - Len(p) + 1, Len(s)) = p
IsInfixOf(p, s) ==
    \E k \in 0..(Len(s) - Len(p)) : SubSeq(s, k + 1, k + Len(p)) = p

Sentences == _split_into_sentences(text)

\* the words of chunk i that are not the overlap tail injected at its start
OwnWords(i) ==
    LET w == Words(chunks[i].text)
    IN  IF i = 1 THEN w
        ELSE SubSeq(w, Len(Words(overlap_texts[i - 1])) + 1, Len(w))

\* the sentences whose own token count exceeds chunk_size
Oversized == {j \in 1..Len(Sentences) :
                 count_tokens(tokenizer, Sentences[j]) > chunk_size}

\* C2: with 0 < overlap < chunk_size every emitted chunk has a token count
\* of at most chunk_size, unless it contains a sentence that alone exceeds
\* chunk_size.
C2_TokenCountWithinChunkSize ==
    (called = "chunk_text" /\ 0 < overlap /\ overlap < chunk_size) =>
        \A i \in 1..Len(chunks) :
            \/ chunks[i].tokens <= chunk_size
            \/ \E j \in Oversized : IsInfixOf(Sentences[j], chunks[i].text)

\* number of words in the first k sentences
RECURSIVE SentenceWords(_)
SentenceWords(k) == IF k = 0 THEN 0 ELSE SentenceWords(k - 1) + Len(Words(Sentences[k]))

\* number of own words in the first k chunks
RECURSIVE ChunkWords(_)
ChunkWords(k) == IF k = 0 THEN 0 ELSE ChunkWords(k - 1) + Len(OwnWords(k))

\* C3: without the injected overlap tails the chunks, in emission order,
\* are the sentences of the text in order: the same words, and every chunk
\* boundary is a sentence boundary (nothing dropped, duplicated, reordered
\* or split), oversized sentences included.
C3_ChunksReproduceSentences ==
    called = "chunk_text" =>
        /\ Flatten([i \in 1..Len(chunks) |-> OwnWords(i)])
             = Flatten([j \in 1..Len(Sentences) |-> Words(Sentences[j])])
        /\ \A i \in 2..Len(chunks) :
               Len(Words(overlap_texts[i - 1])) <= Len(Words(chunks[i].text))
        /\ \A k \in 1..Len(chunks) :
               \E m \in 1..Len(Sentences) : ChunkWords(k) = SentenceWords(m)

\* a page that rolled over twice with a non-empty overlap tail and holds a
\* sentence longer than chunk_size
C3_Witness ==
    /\ called = "chunk_text"
    /\ Len(chunks) >= 3
    /\ overlap_texts[1] # <<>>
    /\ Oversized # {}

\* C4: at every rollover the next chunk starts with the overlap tail, the
\* tail is a whole-word suffix of the chunk just closed, and the tail's
\* estimated token count is at most overlap, for every overlap >= 1 and
\* both token counters.
C4_OverlapTailIsBoundedSuffix ==
    (called = "chunk_text" /\ overlap >= 1) =>
        \A i \in 1..Len(overlap_texts) :
            /\ i + 1 <= Len(chunks)
            /\ IsSuffixOf(Words(overlap_texts[i]), Words(chunks[i].text))
            /\ IsPrefixOf(Words(overlap_texts[i]), Words(chunks[i + 1].text))
            /\ count_tokens(tokenizer, overlap_texts[i]) <= overlap

(***************************************************************************)
(* The embedding client applied to one text: the text, max_retries and the *)
(* backend's answers are drawn at the start.                               *)
(***************************************************************************)
EmbedTexts == {<<"a">>, <<" ", "a", "\t", " ", "b", ".">>, <<"a", "#", "b">>}

Scripts == [1..MaxRetries -> Responses]

InitEmbed ==
    /\ embed_in \in [text : EmbedTexts, max_retries : 0..MaxRetries, script : Scripts]
    /\ embed_out = Idle
    /\ ChunkerIdle /\ StoreIdle
    /\ called = "none"

GetEmbedding ==
    /\ called = "none"
    /\ embed_out' = _get_embedding(embed_in.text, embed_in.max_retries, embed_in.script)
    /\ called' = "_get_embedding"
    /\ UNCHANGED <<generator, tokenizer, text, chunk_size, overlap, chunks, overlap_texts,
                   embed_in, collection, collection_live, dimension, next_id, result, history,
                   current_session_id, clock>>

NextEmbed == GetEmbedding

SpecEmbed == InitEmbed /\ [][NextEmbed]_vars

\* the number of leading failures of the backend script
RECURSIVE LeadingFailures(_)
LeadingFailures(script) ==
    IF script = <<>> \/ Head(script).kind = "ok" THEN 0
    ELSE 1 + LeadingFailures(Tail(script))

Posts(trace) == SelectSeq(trace, LAMBDA e : e.ev = "post")
Sleeps(trace) == SelectSeq(trace, LAMBDA e : e.ev = "sleep")

\* C5: a backend that fails f < max_retries times and then succeeds: the
\* call returns that embedding after exactly f+1 requests, with exactly f
\* waits of 1, 2, ..., 2^(f-1) seconds, each between a failed request and
\* the next request.
C5_BackoffThenSuccess ==
    LET f == LeadingFailures(embed_in.script)
        trace == embed_out.trace
    IN  (called = "_get_embedding" /\ f < embed_in.max_retries) =>
            /\ embed_out.status = "return"
            /\ embed_out.value = embed_in.script[f + 1].embedding
            /\ Len(trace) = 2 * f + 1
            /\ \A k \in 0..f : trace[2 * k + 1].ev = "post"
            /\ \A k \in 0..(f - 1) : trace[2 * k + 2] = SleepEvent(Pow2(k))

\* two failures, then success on the third of the default 3 attempts:
\* waits of 1s and 2s
C5_Witness ==
    /\ called = "_get_embedding"
    /\ embed_in.max_retries = default_max_retries
    /\ LeadingFailures(embed_in.script) = 2
    /\ embed_out.status = "return"
    /\ embed_out.value \in Vectors
    /\ Sleeps(embed_out.trace) = <<SleepEvent(1), SleepEvent(2)>>

\* C6: when every attempt fails (network error, timeout, non-2xx response
\* or payload without an embedding), exactly max_retries requests are sent
\* and the call raises an error carrying the cause of the last attempt.
C6_RaisesAfterMaxAttempts ==
    (/\ called = "_get_embedding"
     /\ embed_in.max_retries >= 1
     /\ LeadingFailures(embed_in.script) >= embed_in.max_retries) =>
        /\ embed_out.status = "raise"
        /\ Len(Posts(embed_out.trace)) = embed_in.max_retries
        /\ embed_out.cause = embed_in.script[embed_in.max_retries].kind
        /\ embed_out.trace[Len(embed_out.trace)].ev = "post"

\* three failed attempts of different kinds under the default max_retries
C6_Witness ==
    /\ called = "_get_embedding"
    /\ embed_in.max_retries = default_max_retries
    /\ embed_in.script[1].kind = "timeout"
    /\ embed_in.script[2].kind = "http_error"
    /\ embed_in.script[3].kind = "no_embedding"
    /\ embed_out.status = "raise"
    /\ embed_out.cause = "no_embedding"
    /\ Len(Posts(embed_out.trace)) = 3

(***************************************************************************)
(* The vector store: batches are added and queries are answered while the  *)
(* embedding backend and the storage succeed or fail.                      *)
(***************************************************************************)
ChunkPool ==
    {MakeChunk(<<"a", ".">>, 1, [page_number |-> 1, filename |-> "f1", filepath |-> "/d/f1"]),
     MakeChunk(<<"b", "!">>, 1, [page_number |-> 2, filename |-> "f1", filepath |-> "/d/f1"]),
     MakeChunk(<<"a", ".">>, 1, [page_number |-> 1, filename |-> "f2", filepath |-> "/d/f2"])}

RECURSIVE SeqsUpTo(_, _)
SeqsUpTo(S, n) ==
    IF n = 0 THEN {<<>>}
    ELSE LET shorter == SeqsUpTo(S, n - 1)
         IN  shorter \cup {Append(q, x) : q \in {r \in shorter : Len(r) = n - 1}, x \in S}

Batches == SeqsUpTo(ChunkPool, MaxBatch)

\* what the backend answers during one _get_embedding call: success at
\* once, success at the second attempt, or three failures
CallScripts ==
    {<<OkResponse(v)>> : v \in Vectors}
        \cup {<<FailResponse("timeout"), OkResponse(<<0>>)>>}
        \cup {<<FailResponse("http_error"), FailResponse("timeout"),
               FailResponse("connection_error")>>}

Queries == {<<>>, <<" ", "\t">>, <<"q">>, <<" ", "q", "a", " ">>}
ResultCounts == {1, 2, MAX_CONTEXT_CHUNKS}

\* what an earlier run of the program left in the directory of the vector
\* database: nothing, or the record of a chunk it had added
PersistedBatches ==
    {<<>>,
     <<MakeChunk(<<"a", ".">>, 1,
                 [page_number |-> 1, filename |-> "f1", filepath |-> "/d/f1"])>>}

PersistedStore(batch) ==
    add_documents(<<>>, 0, 1, batch, [k \in 1..Len(batch) |-> <<OkResponse(<<0>>)>>], TRUE)

\* what an earlier run left in the history file: no session, or a session
\* it had created in the second before the clock of this run starts
PersistedHistories == {<<>>, create_session(<<>>, 0 - 1, None).history}

\* the constructors: _initialize_client gets the collection when the
\* database has it and creates an empty one when it has not (and raises
\* when neither works, so that a VectorStore always refers to a
\* collection), HistoryManager writes an empty history file when there is
\* none and reads the file otherwise, and ChatEngine starts without a
\* session
Constructed ==
    /\ \E batch \in PersistedBatches :
           /\ collection = PersistedStore(batch).collection
           /\ dimension = PersistedStore(batch).dimension
           /\ next_id = PersistedStore(batch).next_id
    /\ collection_live = TRUE
    /\ history \in PersistedHistories
    /\ current_session_id = None /\ clock = 0
    /\ result = Idle
    /\ generator = NoGenerator

Init ==
    /\ Constructed
    /\ ChunkerIdle /\ EmbedIdle
    /\ called = "none"

\* a call of add_documents with a batch, backend answers and a storage
\* outcome drawn from the given sets; storage_ok says whether collection.add
\* returns, and it returns for vectors of one dimension only
AddDocumentsFrom(batches, call_scripts, storage_outcomes, max_records) ==
    /\ called = "none"
    /\ \E batch \in {b \in batches : Len(collection) + Len(b) <= max_records} :
       \E scripts \in [1..Len(batch) -> call_scripts] : \E storage_ok \in storage_outcomes :
        /\ LET Outcome(r) ==
                   /\ (r.status = "return" /\ batch # <<>>)
                          => OneDimension(dimension, r.embeddings)
                   /\ collection' = r.collection
                   /\ dimension' = r.dimension
                   /\ next_id' = r.next_id
                   /\ result' = [op |-> "add_documents", status |-> r.status,
                                 cause |-> r.cause, embedded |-> r.embedded,
                                 trace |-> r.trace, chunks |-> batch,
                                 embeddings |-> r.embeddings,
                                 storage_ok |-> storage_ok /\ collection_live]
           IN  Outcome(add_documents(collection, dimension, next_id, batch, scripts,
                                     storage_ok /\ collection_live))
        /\ called' = "add_documents"
        /\ UNCHANGED <<generator, tokenizer, text, chunk_size, overlap, chunks, overlap_texts,
                       embed_in, embed_out, collection_live, history,
                       current_session_id, clock>>

AddDocuments ==
    AddDocumentsFrom({b \in Batches : next_id + Len(b) - 1 <= MaxIds}, CallScripts,
                     BOOLEAN, MaxRecords)

\* a call of search_similar with arguments and backend answers drawn from
\* the given sets
SearchSimilarFrom(queries, call_scripts) ==
    /\ called = "none"
    /\ \E query \in queries : \E n_results \in ResultCounts :
       \E script \in call_scripts : \E index_ok \in BOOLEAN :
        /\ LET Outcome(r) ==
                   result' = [op |-> "search_similar", status |-> r.status,
                              value |-> r.value, trace |-> r.trace, queried |-> r.queried,
                              query_embedding |-> r.query_embedding,
                              query |-> query, n_results |-> n_results,
                              embedding_ok |-> script[Len(script)].kind = "ok",
                              index_ok |-> index_ok /\ collection_live]
           IN  Outcome(search_similar(collection, dimension, query, n_results, script,
                                      index_ok /\ collection_live))
        /\ called' = "search_similar"
        /\ UNCHANGED <<generator, tokenizer, text, chunk_size, overlap, chunks, overlap_texts,
                       embed_in, embed_out, collection, collection_live, dimension, next_id, history,
                       current_session_id, clock>>

SearchSimilar == SearchSimilarFrom(Queries, CallScripts)

\* the command loop: the outcome of the last command has been shown and
\* the next command is read
Prompt ==
    /\ called # "none"
    /\ called' = "none"
    /\ result' = Idle
    /\ UNCHANGED <<generator, tokenizer, text, chunk_size, overlap, chunks, overlap_texts,
                   embed_in, embed_out, collection, collection_live, dimension, next_id, history,
                   current_session_id, clock>>

Filenames == {"f1", "f2", "f3"}

\* a call of get_collection_stats
GetCollectionStats ==
    \E count_ok \in BOOLEAN :
        /\ called = "none"
        /\ result' = [op |-> "get_collection_stats", status |-> "return",
                      total_chunks |-> get_collection_stats(collection,
                                                            count_ok /\ collection_live),
                      count_ok |-> count_ok /\ collection_live]
        /\ called' = "get_collection_stats"
        /\ UNCHANGED <<generator, tokenizer, text, chunk_size, overlap, chunks, overlap_texts,
                       embed_in, embed_out, collection, collection_live, dimension,
                       next_id, history, current_session_id, clock>>

\* a call of get_documents_by_filename
GetDocumentsByFilename ==
    \E filename \in Filenames : \E get_ok \in BOOLEAN :
        /\ called = "none"
        /\ result' = [op |-> "get_documents_by_filename", status |-> "return",
                      value |-> get_documents_by_filename(collection, filename,
                                                          get_ok /\ collection_live),
                      filename |-> filename, get_ok |-> get_ok /\ collection_live]
        /\ called' = "get_documents_by_filename"
        /\ UNCHANGED <<generator, tokenizer, text, chunk_size, overlap, chunks, overlap_texts,
                       embed_in, embed_out, collection, collection_live, dimension,
                       next_id, history, current_session_id, clock>>

\* a call of delete_documents_by_filename
DeleteDocumentsByFilename ==
    \E filename \in Filenames : \E get_ok \in BOOLEAN : \E delete_ok \in BOOLEAN :
        /\ called = "none"
        /\ LET Outcome(r) ==
                   /\ collection' = r.collection
                   /\ result' = [op |-> "delete_documents_by_filename",
                                 status |-> "return", value |-> r.value,
                                 filename |-> filename,
                                 get_ok |-> get_ok /\ collection_live,
                                 delete_ok |-> delete_ok /\ collection_live]
           IN  Outcome(delete_documents_by_filename(collection, filename,
                                                    get_ok /\ collection_live,
                                                    delete_ok /\ collection_live))
        /\ called' = "delete_documents_by_filename"
        /\ UNCHANGED <<generator, tokenizer, text, chunk_size, overlap, chunks, overlap_texts,
                       embed_in, embed_out, collection_live, dimension, next_id,
                       history, current_session_id, clock>>

\* a call of clear_collection
ClearCollection ==
    \E outcome \in ClearOutcomes :
        /\ called = "none"
        /\ LET Outcome(r) ==
                   /\ collection' = r.collection
                   /\ dimension' = r.dimension
                   /\ collection_live' = r.live
                   /\ result' = [op |-> "clear_collection", status |-> r.status,
                                 outcome |-> outcome]
           IN  Outcome(clear_collection(collection, dimension, collection_live, outcome))
        /\ called' = "clear_collection"
        /\ UNCHANGED <<generator, tokenizer, text, chunk_size, overlap, chunks, overlap_texts,
                       embed_in, embed_out, next_id, history, current_session_id,
                       clock>>

Next ==
    \/ AddDocuments \/ SearchSimilar
    \/ GetCollectionStats \/ GetDocumentsByFilename
    \/ DeleteDocumentsByFilename \/ ClearCollection
    \/ Prompt

Spec == Init /\ [][Next]_vars

(***************************************************************************)
(* The chat flow: documents are uploaded, sessions are started and         *)
(* questions are asked while the backends succeed or fail.                 *)
(***************************************************************************)
\* the files of one upload: a file of two pages and a file of one page
UploadedFiles ==
    <<[name |-> "f1", path |-> "/d/f1", exists |-> TRUE, is_pdf |-> TRUE,
       pages |-> <<<<"a", ".">>, <<"b", "!">>>>],
      [name |-> "f2", path |-> "/d/f2", exists |-> TRUE, is_pdf |-> TRUE,
       pages |-> <<<<"a", ".">>>>]>>
SessionNames == {None, "n"}
ChatQueries == {<<" ", "\t">>, <<"q">>}
\* the backend embeds the question at once, or fails three times
ChatScripts == {s \in CallScripts : s[1] = OkResponse(<<0>>) \/ Len(s) = default_max_retries}

\* upload_pdfs of the two files while pdfplumber, the embedding backend and
\* the storage answer: add_documents is called once for each file
Upload ==
    /\ called = "none"
    /\ Len(collection) + Len(UploadedFiles[1].pages) + Len(UploadedFiles[2].pages)
           <= 3 * MaxUploads
    /\ LET runs == [i \in 1..Len(UploadedFiles) |->
                       [extraction_ok |-> TRUE, fail_at |-> 0, storage_ok |-> TRUE]]
           Outcome(r) ==
               /\ collection' = r.collection
               /\ dimension' = r.dimension
               /\ next_id' = r.next_id
               /\ result' = [op |-> "upload_pdfs", status |-> "return",
                             outcomes |-> r.outcomes, calls |-> r.calls,
                             pdf_paths |-> UploadedFiles, runs |-> runs]
       IN  Outcome(upload_pdfs(tokenizer, UploadedFiles, runs, collection, dimension,
                               next_id, collection_live))
    /\ called' = "upload_pdfs"
    /\ UNCHANGED <<generator, tokenizer, text, chunk_size, overlap, chunks, overlap_texts,
                   embed_in, embed_out, collection_live, history,
                   current_session_id, clock>>

\* a search of the uploaded files while the embedding backend answers at
\* once; the index query may still fail
Ask == SearchSimilarFrom({<<"q">>}, {<<OkResponse(<<0>>)>>})

\* ChatEngine.start_session
StartSession ==
    \E session_name \in SessionNames :
        /\ called = "none"
        /\ Len(history) < MaxSessions
        /\ LET Outcome(r) ==
                   /\ history' = r.history
                   /\ current_session_id' = r.id
                   /\ result' = [op |-> "start_session", status |-> "return",
                                 value |-> r.id]
           IN  Outcome(create_session(history, clock, session_name))
        /\ called' = "start_session"
        /\ UNCHANGED <<generator, tokenizer, text, chunk_size, overlap, chunks, overlap_texts,
                       embed_in, embed_out, collection, collection_live, dimension, next_id, clock>>

\* the ids create_session can give, and one it never gives
MessageSessionIds ==
    {SessionId(now, session_name) : now \in (0 - 1)..MaxClock, session_name \in SessionNames}
        \cup {<<MaxClock + 1>>}

\* the number of messages of all sessions
RECURSIVE TotalMessages(_)
TotalMessages(hist) ==
    IF hist = <<>> THEN 0 ELSE Len(Head(hist).messages) + TotalMessages(Tail(hist))

\* the files offered for import: one that is not JSON, one without the key
\* "messages", an export of a session created at second 0, and an export
\* of a session created elsewhere at a later second, with one message
ForeignId == <<MaxClock + 2>>

ImportFiles ==
    {[readable |-> FALSE, complete |-> FALSE,
      session |-> [id |-> ForeignId, name |-> SessionName(ForeignId, None),
                   messages |-> <<>>]],
     [readable |-> TRUE, complete |-> FALSE,
      session |-> [id |-> ForeignId, name |-> SessionName(ForeignId, None),
                   messages |-> <<>>]],
     [readable |-> TRUE, complete |-> TRUE,
      session |-> [id |-> SessionId(0, None), name |-> SessionName(SessionId(0, None), None),
                   messages |-> <<>>]],
     [readable |-> TRUE, complete |-> TRUE,
      session |-> [id |-> ForeignId, name |-> SessionName(ForeignId, None),
                   messages |-> <<[role |-> "user", content |-> <<"m">>,
                                   sources |-> <<>>]>>]]}

SessionIds == MessageSessionIds \cup {ForeignId}

\* HistoryManager.import_session
ImportSession ==
    /\ called = "none"
    /\ Len(history) < MaxSessions
    /\ \E file \in ImportFiles :
           LET Outcome(r) ==
                   /\ history' = r.history
                   /\ result' = [op |-> "import_session", status |-> "return",
                                 value |-> r.value]
           IN  Outcome(import_session(history, file))
    /\ called' = "import_session"
    /\ UNCHANGED <<generator, tokenizer, text, chunk_size, overlap, chunks, overlap_texts,
                   embed_in, embed_out, collection, collection_live, dimension, next_id,
                   current_session_id, clock>>

\* HistoryManager.delete_session
DeleteSession ==
    /\ called = "none"
    /\ \E session_id \in SessionIds :
           LET Outcome(r) ==
                   /\ history' = r.history
                   /\ result' = [op |-> "delete_session", status |-> "return",
                                 value |-> r.value, session_id |-> session_id]
           IN  Outcome(delete_session(history, session_id))
    /\ called' = "delete_session"
    /\ UNCHANGED <<generator, tokenizer, text, chunk_size, overlap, chunks, overlap_texts,
                   embed_in, embed_out, collection, collection_live, dimension, next_id,
                   current_session_id, clock>>

\* HistoryManager.clear_all_history
ClearAllHistory ==
    /\ called = "none"
    /\ history' = clear_all_history
    /\ result' = [op |-> "clear_all_history", status |-> "return"]
    /\ called' = "clear_all_history"
    /\ UNCHANGED <<generator, tokenizer, text, chunk_size, overlap, chunks, overlap_texts,
                   embed_in, embed_out, collection, collection_live, dimension, next_id,
                   current_session_id, clock>>

\* the ids load_session is called with: those of the stored sessions and
\* one that no session created here has
LoadedSessionIds(hist) == {hist[i].id : i \in 1..Len(hist)} \cup {ForeignId}

\* ChatEngine.load_session
LoadSession ==
    /\ called = "none"
    /\ \E session_id \in LoadedSessionIds(history) :
           LET Outcome(r) ==
                   /\ current_session_id' = r.current_session_id
                   /\ result' = [op |-> "load_session", status |-> "return",
                                 value |-> r.value, session_id |-> session_id]
           IN  Outcome(load_session(history, current_session_id, session_id))
    /\ called' = "load_session"
    /\ UNCHANGED <<generator, tokenizer, text, chunk_size, overlap, chunks, overlap_texts,
                   embed_in, embed_out, collection, collection_live, dimension, next_id,
                   history, clock>>

\* the messages a suspended generator is still to log
Pending == IF generator.state = "suspended" /\ generator.at = "chunk" THEN 1 ELSE 0

\* ChatEngine.chat, called with a query of the given set
ChatFrom(queries) ==
    \E user_query \in queries : \E script \in ChatScripts :
    \E index_ok \in BOOLEAN : \E llm_ok \in BOOLEAN :
        /\ called = "none"
        /\ TotalMessages(history) + Pending + 2 <= MaxMessages
        /\ LET Outcome(r) ==
                   /\ history' = r.history
                   /\ result' = [op |-> "chat", status |-> r.status,
                                 response |-> r.response, sources |-> r.sources,
                                 error |-> r.error,
                                 completion_called |-> r.completion_called,
                                 used_chunks |-> r.used_chunks, search |-> r.search,
                                 context |-> r.context,
                                 query |-> user_query,
                                 embedding_ok |-> script[Len(script)].kind = "ok",
                                 index_ok |-> index_ok /\ collection_live,
                                 llm_ok |-> llm_ok]
           IN  Outcome(chat(history, current_session_id, collection, dimension,
                            user_query, script, index_ok /\ collection_live, llm_ok))
        /\ called' = "chat"
        /\ UNCHANGED <<generator, tokenizer, text, chunk_size, overlap, chunks, overlap_texts,
                       embed_in, embed_out, collection, collection_live, dimension, next_id,
                       current_session_id, clock>>

Chat == ChatFrom(ChatQueries)

\* a second passes
Tick ==
    /\ called = "none"
    /\ clock < MaxClock
    /\ Len(history) < MaxSessions   \* only create_session reads the clock
    /\ clock' = clock + 1
    /\ UNCHANGED <<generator, tokenizer, text, chunk_size, overlap, chunks, overlap_texts,
                   embed_in, embed_out, collection, collection_live, dimension, next_id, result,
                   history, current_session_id, called>>

NextChat == Upload \/ Ask \/ StartSession \/ LoadSession \/ Chat \/ Tick \/ Prompt

SpecChat == Init /\ [][NextChat]_vars

(***************************************************************************)
(* Ingestion of a file, step by step: process_pdf chunks the pages of the  *)
(* file one after the other, upload_pdfs adds the chunks of all pages to   *)
(* the vector store, and the store is read back.                           *)
(***************************************************************************)
\* a blank page, a page of two short sentences, and pages with a tab and
\* with characters that _clean_text replaces
PageTexts ==
    {<<" ", "\t">>,
     <<"a", ".", " ", "b", ".">>,
     <<"a", "\t", "b", "!", " ", "a", "#">>,
     <<"a", "#", "b", ".">>}

\* the files that are ingested: two paths, with up to MaxBatch pages
IngestFiles ==
    {[name |-> path.name, path |-> path.path, exists |-> TRUE, is_pdf |-> TRUE,
      pages |-> pages] :
        path \in {[name |-> "f1", path |-> "/d/f1"], [name |-> "f2", path |-> "/e/f2"]},
        pages \in SeqsUpTo(PageTexts, MaxBatch)}

\* the backend embeds a chunk at once, or fails three times
IngestScripts ==
    {<<OkResponse(<<0>>)>>,
     <<FailResponse("timeout"), FailResponse("timeout"), FailResponse("timeout")>>}

InitIngest ==
    /\ tokenizer \in {"exact", "fallback"}
    /\ text = <<>> /\ chunk_size = 1 /\ overlap = 0
    /\ chunks = <<>> /\ overlap_texts = <<>>
    /\ EmbedIdle /\ Constructed
    /\ called = "none"

\* process_pdf up to its loop: extract_text_from_pdf has read the pages of
\* the file, and all_chunks is empty
ExtractText ==
    /\ called = "none"
    /\ \E file \in IngestFiles :
           /\ Len(collection) + Len(file.pages) <= MaxBatch
           /\ result' = [op |-> "process_pdf", status |-> "running", file |-> file.name,
                         pages |-> extract_text_from_pdf(file, TRUE).pages,
                         chunked |-> 0]
    /\ text' = <<>> /\ chunks' = <<>> /\ overlap_texts' = <<>>
    /\ called' = "extract_text_from_pdf"
    /\ UNCHANGED <<generator, tokenizer, chunk_size, overlap, embed_in, embed_out,
                   collection, collection_live, dimension, next_id, history,
                   current_session_id, clock>>

\* one round of the loop of process_pdf: chunk_text is applied to the next
\* page with the default chunk size and overlap, and its chunks are put at
\* the end of all_chunks; when chunk_text raises, process_pdf raises and
\* upload_pdfs shows the file as failed
ChunkPage ==
    /\ called \in {"extract_text_from_pdf", "chunk_text"}
    /\ result.chunked < Len(result.pages)
    /\ LET Extended(page, metadata, r) ==
               /\ text' = page.text
               /\ IF r.status = "raise"
                  THEN /\ chunks' = <<>> /\ overlap_texts' = <<>>
                       /\ result' = [op |-> "upload_pdfs", status |-> "failed",
                                     file |-> result.file]
                       /\ called' = "failed"
                  ELSE /\ chunks' = chunks \o r.chunks
                       /\ overlap_texts' = ChunkRun(tokenizer, page.text, metadata,
                                                    CHUNK_SIZE, CHUNK_OVERLAP).overlap_texts
                       /\ result' = [result EXCEPT !.chunked = @ + 1]
                       /\ called' = "chunk_text"
           Chunked(page, metadata) ==
               Extended(page, metadata,
                        chunk_text(tokenizer, page.text, metadata,
                                   CHUNK_SIZE, CHUNK_OVERLAP))
           Taken(page) ==
               Chunked(page, [page_number |-> page.page_number,
                              filename |-> page.filename, filepath |-> page.filepath])
       IN  Taken(result.pages[result.chunked + 1])
    /\ chunk_size' = CHUNK_SIZE /\ overlap' = CHUNK_OVERLAP
    /\ UNCHANGED <<generator, tokenizer, embed_in, embed_out, collection, collection_live,
                   dimension, next_id, history, current_session_id, clock>>

\* upload_pdfs after process_pdf has returned chunks: add_documents is
\* applied to the chunks of all pages
Ingest ==
    /\ called \in {"extract_text_from_pdf", "chunk_text"}
    /\ result.chunked = Len(result.pages)
    /\ chunks # <<>>
    /\ \E scripts \in [1..Len(chunks) -> IngestScripts] : \E storage_ok \in BOOLEAN :
           LET Outcome(r) ==
                   /\ collection' = r.collection
                   /\ dimension' = r.dimension
                   /\ next_id' = r.next_id
                   /\ result' = [op |-> "add_documents", status |-> r.status,
                                 cause |-> r.cause, embedded |-> r.embedded,
                                 trace |-> r.trace, chunks |-> chunks]
           IN  Outcome(add_documents(collection, dimension, next_id, chunks, scripts,
                                     storage_ok /\ collection_live))
    /\ called' = "add_documents"
    /\ UNCHANGED <<generator, tokenizer, text, chunk_size, overlap, chunks, overlap_texts,
                   embed_in, embed_out, collection_live, history,
                   current_session_id, clock>>

\* upload_pdfs after process_pdf has returned no chunk: add_documents is
\* not called and "No text found" is shown
NoTextFound ==
    /\ called \in {"extract_text_from_pdf", "chunk_text"}
    /\ result.chunked = Len(result.pages)
    /\ chunks = <<>>
    /\ result' = [op |-> "upload_pdfs", status |-> "no_text", file |-> result.file]
    /\ called' = "no_text"
    /\ UNCHANGED <<generator, tokenizer, text, chunk_size, overlap, chunks, overlap_texts,
                   embed_in, embed_out, collection, collection_live, dimension, next_id,
                   history, current_session_id, clock>>

\* get_documents_by_filename applied after the file was ingested
GetIngested ==
    \E filename \in Filenames : \E get_ok \in BOOLEAN :
        /\ called = "add_documents"
        /\ result' = [op |-> "get_documents_by_filename", status |-> "return",
                      value |-> get_documents_by_filename(collection, filename,
                                                          get_ok /\ collection_live),
                      filename |-> filename, get_ok |-> get_ok /\ collection_live,
                      ingested |-> result.status = "return"]
        /\ called' = "get_documents_by_filename"
        /\ UNCHANGED <<generator, tokenizer, text, chunk_size, overlap, chunks, overlap_texts,
                       embed_in, embed_out, collection, collection_live, dimension,
                       next_id, history, current_session_id, clock>>

\* search_similar applied after the file was ingested
SearchIngested ==
    \E n_results \in {1, MAX_CONTEXT_CHUNKS} : \E script \in IngestScripts :
    \E index_ok \in BOOLEAN :
        /\ called = "add_documents"
        /\ LET Outcome(r) ==
                   result' = [op |-> "search_similar", status |-> r.status,
                              value |-> r.value, queried |-> r.queried,
                              n_results |-> n_results,
                              embedding_ok |-> script[Len(script)].kind = "ok",
                              index_ok |-> index_ok /\ collection_live,
                              ingested |-> result.status = "return"]
           IN  Outcome(search_similar(collection, dimension, <<"q">>, n_results, script,
                                      index_ok /\ collection_live))
        /\ called' = "search_similar"
        /\ UNCHANGED <<generator, tokenizer, text, chunk_size, overlap, chunks, overlap_texts,
                       embed_in, embed_out, collection, collection_live, dimension,
                       next_id, history, current_session_id, clock>>

\* the file is done with and the next one is taken
NextFile ==
    /\ called \in {"add_documents", "no_text", "failed", "get_documents_by_filename",
                   "search_similar"}
    /\ called' = "none"
    /\ result' = Idle
    /\ text' = <<>> /\ chunk_size' = 1 /\ overlap' = 0
    /\ chunks' = <<>> /\ overlap_texts' = <<>>
    /\ UNCHANGED <<generator, tokenizer, embed_in, embed_out, collection, collection_live,
                   dimension, next_id, history, current_session_id, clock>>

NextIngest ==
    \/ ExtractText \/ ChunkPage \/ Ingest \/ NoTextFound
    \/ GetIngested \/ SearchIngested \/ NextFile

SpecIngest == InitIngest /\ [][NextIngest]_vars

(***************************************************************************)
(* Batch uploads: lists of paths are uploaded while the reading of a file, *)
(* the embedding of its chunks and the storage succeed or fail.            *)
(***************************************************************************)
\* a file with text on pages 1 and 3, a file of one page, a file without
\* text, a path that does not exist and a path that is no PDF
UploadFiles ==
    {[name |-> "f1", path |-> "/d/f1", exists |-> TRUE, is_pdf |-> TRUE,
      pages |-> <<<<"a", ".", " ", "b", ".">>, <<" ">>, <<"a", "#">>>>],
     [name |-> "f2", path |-> "/d/f2", exists |-> TRUE, is_pdf |-> TRUE,
      pages |-> <<<<"b", "!", " ">>>>],
     [name |-> "f3", path |-> "/d/f3", exists |-> TRUE, is_pdf |-> TRUE,
      pages |-> <<<<>>, <<"\t">>>>],
     [name |-> "f4", path |-> "/d/f4", exists |-> FALSE, is_pdf |-> TRUE,
      pages |-> <<>>],
     [name |-> "f5", path |-> "/d/f5", exists |-> TRUE, is_pdf |-> FALSE,
      pages |-> <<>>]}

UploadRuns == [extraction_ok : BOOLEAN, fail_at : 0..2, storage_ok : BOOLEAN]

\* the runs that differ in what upload_pdfs meets while it processes the
\* file: a path that is skipped is not read, a file that cannot be read is
\* not embedded, and a chunk that cannot be embedded is not stored
RunsFor(tok, file) ==
    {run \in UploadRuns :
        /\ ~(file.exists /\ file.is_pdf) => run.extraction_ok
        /\ ~(file.exists /\ file.is_pdf /\ run.extraction_ok) => run.fail_at = 0
        /\ run.extraction_ok => run.fail_at <= Len(process_pdf(tok, file, TRUE).chunks)
        /\ (run.fail_at # 0 \/ ~run.extraction_ok \/ ~(file.exists /\ file.is_pdf)
              \/ process_pdf(tok, file, TRUE).chunks = <<>>) => run.storage_ok}

RECURSIVE RunSeqs(_, _)
RunSeqs(tok, pdf_paths) ==
    IF pdf_paths = <<>> THEN {<<>>}
    ELSE {<<run>> \o rest : run \in RunsFor(tok, Head(pdf_paths)),
                            rest \in RunSeqs(tok, Tail(pdf_paths))}

\* the number of chunks an upload of the paths can add
RECURSIVE MaxAdded(_, _)
MaxAdded(tok, pdf_paths) ==
    IF pdf_paths = <<>> THEN 0
    ELSE Len(process_pdf(tok, Head(pdf_paths), TRUE).chunks) + MaxAdded(tok, Tail(pdf_paths))

InitUpload ==
    /\ tokenizer \in {"exact", "fallback"}
    /\ text = <<>> /\ chunk_size = 1 /\ overlap = 0
    /\ chunks = <<>> /\ overlap_texts = <<>>
    /\ EmbedIdle /\ Constructed
    /\ called = "none"

\* a call of upload_pdfs.  upload_pdfs reads neither the history nor the
\* current session, and the uploads of several paths are drawn while the
\* program holds no session.
UploadPdfs ==
    /\ called = "none"
    /\ \E pdf_paths \in SeqsUpTo(UploadFiles, MaxBatch) :
        /\ (history # <<>> \/ current_session_id # None) => Len(pdf_paths) <= 1
        /\ Len(collection) + MaxAdded(tokenizer, pdf_paths) <= MaxRecords
        /\ next_id + MaxAdded(tokenizer, pdf_paths) - 1 <= MaxIds
        /\ \E runs \in RunSeqs(tokenizer, pdf_paths) :
               LET Outcome(r) ==
                       /\ collection' = r.collection
                       /\ dimension' = r.dimension
                       /\ next_id' = r.next_id
                       /\ result' = [op |-> "upload_pdfs", status |-> "return",
                                     outcomes |-> r.outcomes, calls |-> r.calls,
                                     pdf_paths |-> pdf_paths, runs |-> runs]
               IN  Outcome(upload_pdfs(tokenizer, pdf_paths, runs, collection, dimension,
                                       next_id, collection_live))
    /\ called' = "upload_pdfs"
    /\ UNCHANGED <<generator, tokenizer, text, chunk_size, overlap, chunks, overlap_texts,
                   embed_in, embed_out, collection_live, history,
                   current_session_id, clock>>

\* the clear command of the shell
ClearData ==
    /\ called = "none"
    /\ \E outcome \in ClearOutcomes : \E confirmed \in BOOLEAN :
           LET Outcome(r) ==
                   /\ collection' = r.collection
                   /\ dimension' = r.dimension
                   /\ collection_live' = r.live
                   /\ history' = r.history
                   /\ result' = [op |-> "clear_data", status |-> r.status,
                                 shown |-> r.shown, outcome |-> outcome,
                                 confirmed |-> confirmed]
           IN  Outcome(clear_data(collection, dimension, collection_live, history,
                                  outcome, confirmed))
    /\ called' = "clear_data"
    /\ UNCHANGED <<generator, tokenizer, text, chunk_size, overlap, chunks, overlap_texts,
                   embed_in, embed_out, next_id, current_session_id, clock>>

\* the lines typed in the chat loop: an exit word, a blank line, a
\* question that is answered and a question the model fails to answer
ChatLines ==
    {[user_input |-> <<"Q">>, script |-> <<OkResponse(<<0>>)>>, index_ok |-> TRUE,
      llm_ok |-> TRUE],
     [user_input |-> <<" ">>, script |-> <<OkResponse(<<0>>)>>, index_ok |-> TRUE,
      llm_ok |-> TRUE],
     [user_input |-> <<"a">>, script |-> <<OkResponse(<<0>>)>>, index_ok |-> TRUE,
      llm_ok |-> TRUE],
     [user_input |-> <<"a">>, script |-> <<OkResponse(<<0>>)>>, index_ok |-> TRUE,
      llm_ok |-> FALSE]}

\* the questions among the lines
RECURSIVE Questions(_)
Questions(lines) ==
    IF lines = <<>> THEN 0
    ELSE (IF Strip(Head(lines).user_input) = <<>> THEN 0 ELSE 1) + Questions(Tail(lines))

\* the chat command of the shell.  The clock is read by create_session and
\* left alone: two chat commands typed within one second start two sessions
\* with the same id (Tick lets a second pass between two commands).  A chat
\* is started while the history has room for its session and the message
\* bound leaves an exchange for every session.
StartChat ==
    /\ called = "none"
    /\ Len(history) < MaxSessions
    /\ 2 * (Len(history) + 1) <= MaxMessages
    /\ \E connection_ok \in BOOLEAN : \E count_ok \in BOOLEAN :
       \E lines \in SeqsUpTo(ChatLines, MaxLines) :
           /\ TotalMessages(history) + 2 * Questions(lines) <= MaxMessages
           /\ LET Outcome(r) ==
                      /\ history' = r.history
                      /\ current_session_id' = r.current_session_id
                      /\ result' = [op |-> "start_chat", status |-> "return",
                                    started |-> r.started, refused |-> r.refused,
                                    shown |-> r.shown]
              IN  Outcome(start_chat(history, current_session_id, clock, collection,
                                     dimension, collection_live, connection_ok,
                                     count_ok, lines))
    /\ called' = "start_chat"
    /\ UNCHANGED <<generator, tokenizer, text, chunk_size, overlap, chunks, overlap_texts,
                   embed_in, embed_out, collection, collection_live, dimension, next_id,
                   clock>>

\* the load command of the shell
CliLoadSession ==
    /\ called = "none"
    /\ \E session_id \in LoadedSessionIds(history) :
           LET Outcome(r) ==
                   /\ current_session_id' = r.current_session_id
                   /\ result' = [op |-> "load_session", status |-> "return",
                                 value |-> r.value, session_id |-> session_id,
                                 shown |-> r.shown]
           IN  Outcome(cli_load_session(history, current_session_id, session_id))
    /\ called' = "load_session"
    /\ UNCHANGED <<generator, tokenizer, text, chunk_size, overlap, chunks, overlap_texts,
                   embed_in, embed_out, collection, collection_live, dimension, next_id,
                   history, clock>>

\* the commands of PDFChatCLI.run that change what the program holds:
\* upload, chat, load and clear (help, sessions and stats only display),
\* and the seconds that pass between them
NextUpload == UploadPdfs \/ StartChat \/ CliLoadSession \/ ClearData \/ Tick \/ Prompt

SpecUpload == InitUpload /\ [][NextUpload]_vars

(***************************************************************************)
(* Streamed answers: sessions are started, loaded and deleted, and        *)
(* questions are asked with chat and with stream_chat, whose generator the *)
(* consumer advances element by element or closes.                         *)
(***************************************************************************)
\* what ollama.chat(stream=True) delivers: chunks of which the last has
\* done = true, with and without content in it, or chunks followed by an
\* exception
Streams ==
    {[chunks |-> <<[content |-> <<"a">>, done |-> FALSE],
                   [content |-> <<"b">>, done |-> TRUE]>>, raises |-> FALSE],
     [chunks |-> <<[content |-> <<"a">>, done |-> FALSE],
                   [content |-> <<>>, done |-> TRUE]>>, raises |-> FALSE],
     [chunks |-> <<[content |-> <<>>, done |-> TRUE]>>, raises |-> FALSE],
     [chunks |-> <<[content |-> <<"a">>, done |-> FALSE]>>, raises |-> TRUE],
     [chunks |-> <<>>, raises |-> TRUE]}

\* the question asked of the index the earlier run left
StreamQueries == {<<"q">>}

\* a chat call between the stream_chat calls
ChatBetween == ChatFrom(StreamQueries)

\* a call of ChatEngine.stream_chat: the generator object is made and
\* nothing of the body runs
StreamChat ==
    /\ called = "none"
    /\ generator = NoGenerator
    /\ \E user_query \in StreamQueries :
           /\ generator' = NewGenerator(user_query)
           /\ result' = [op |-> "stream_chat", status |-> "return", query |-> user_query]
    /\ called' = "stream_chat"
    /\ UNCHANGED <<tokenizer, text, chunk_size, overlap, chunks, overlap_texts,
                   embed_in, embed_out, collection, collection_live, dimension, next_id,
                   history, current_session_id, clock>>

\* what a next() call did: the generator it leaves, and for the consumer
\* the element or the end of the sequence
Pulled(r) ==
    /\ history' = r.history
    /\ generator' = IF r.generator.state = "ended" THEN NoGenerator ELSE r.generator
    /\ result' = [op |-> "next", status |-> r.status, value |-> r.value,
                  query |-> r.generator.query,
                  started_in |-> r.generator.started_in,
                  stream |-> r.generator.stream,
                  yielded |-> r.generator.yielded,
                  logged |-> r.generator.logged,
                  completion_called |-> r.generator.completion_called,
                  llm_ok |-> ~r.generator.stream.raises]
    /\ called' = "next"

\* the first next() of the generator: the body runs to its first yield
StartStream ==
    /\ called = "none"
    /\ generator.state = "created"
    /\ TotalMessages(history) + 2 <= MaxMessages
    /\ \E script \in ChatScripts : \E index_ok \in BOOLEAN : \E stream \in Streams :
           Pulled(stream_chat(history, current_session_id, collection, dimension,
                              generator, script, index_ok /\ collection_live, stream))
    /\ UNCHANGED <<tokenizer, text, chunk_size, overlap, chunks, overlap_texts,
                   embed_in, embed_out, collection, collection_live, dimension, next_id,
                   current_session_id, clock>>

\* a later next(): the body runs on from the yield it is suspended at
ResumeStream ==
    /\ called = "none"
    /\ generator.state = "suspended"
    /\ Pulled(stream_resume(history, current_session_id, generator))
    /\ UNCHANGED <<tokenizer, text, chunk_size, overlap, chunks, overlap_texts,
                   embed_in, embed_out, collection, collection_live, dimension, next_id,
                   current_session_id, clock>>

\* close() of the generator, or the consumer letting go of it: the body
\* is left at the yield by GeneratorExit, which no except clause of it
\* catches
CloseStream ==
    /\ called = "none"
    /\ generator.state \in {"created", "suspended"}
    /\ generator' = NoGenerator
    /\ result' = [op |-> "close", status |-> "return", query |-> generator.query,
                  started_in |-> generator.started_in,
                  yielded |-> generator.yielded, logged |-> generator.logged]
    /\ called' = "close"
    /\ UNCHANGED <<tokenizer, text, chunk_size, overlap, chunks, overlap_texts,
                   embed_in, embed_out, collection, collection_live, dimension, next_id,
                   history, current_session_id, clock>>

NextStream ==
    \/ StartSession \/ LoadSession \/ DeleteSession \/ ChatBetween
    \/ StreamChat \/ StartStream \/ ResumeStream \/ CloseStream
    \/ Prompt

SpecStream == Init /\ [][NextStream]_vars

(***************************************************************************)
(* The persisted history: sessions are created and messages are added to   *)
(* sessions by id.                                                         *)
(***************************************************************************)
\* HistoryManager.add_message
AddMessage ==
    /\ called = "none"
    /\ TotalMessages(history) < MaxSessions
    /\ \E session_id \in MessageSessionIds : \E role \in {"user", "assistant"} :
       \E content \in {<<"m">>} :
           LET Outcome(r) ==
                   /\ history' = r.history
                   /\ result' = [op |-> "add_message", status |-> r.status,
                                 session_id |-> session_id, role |-> role,
                                 content |-> content]
           IN  Outcome(add_message(history, session_id, role, content, <<>>))
    /\ called' = "add_message"
    /\ UNCHANGED <<generator, tokenizer, text, chunk_size, overlap, chunks, overlap_texts,
                   embed_in, embed_out, collection, collection_live, dimension, next_id,
                   current_session_id, clock>>

NextHistory == StartSession \/ LoadSession \/ AddMessage \/ Tick \/ Prompt

SpecHistory == Init /\ [][NextHistory]_vars

(***************************************************************************)
(* Properties of the vector store and of the chat flow.                    *)
(***************************************************************************)

\* C1: an add_documents call that raises, because a chunk could not be
\* embedded after its retries or because the storage write failed, leaves
\* the stored records exactly as they were, also when earlier chunks of
\* the batch had been embedded.
C1_FailedAddCommitsNothing ==
    [][(called' = "add_documents" /\ result'.status = "raise")
          => (collection' = collection /\ Len(collection') = Len(collection))]_vars

\* the second chunk of a batch failed after the first had been embedded,
\* on a collection that already holds records
C1_Witness ==
    /\ called = "add_documents"
    /\ result.status = "raise"
    /\ result.cause \in FailureKinds
    /\ result.embedded >= 1
    /\ Len(result.chunks) = 2
    /\ collection # <<>>

\* C7: search_similar never raises; when the query cannot be embedded or
\* the index query fails it returns an empty list, and chat then answers
\* that no relevant information was found, without an error and without
\* calling the chat model.
C7_SearchFailureIsNoContext ==
    /\ called = "search_similar" =>
          /\ result.status = "return"
          /\ (Strip(result.query) # <<>> /\ (~result.embedding_ok \/ ~result.index_ok))
                => result.value = <<>>
    /\ (called = "chat" /\ current_session_id # None) =>
          /\ result.search.status = "return"
          /\ (~result.embedding_ok \/ ~result.index_ok) =>
                /\ result.search.value = <<>>
                /\ result.status = "return"
                /\ result.response = NoInfoResponse
                /\ ~result.error
                /\ ~result.completion_called

\* a question asked over a non-empty index while the embedding backend is
\* down: three requests, then the no-information answer
C7_Witness ==
    /\ called = "chat"
    /\ collection # <<>>
    /\ Strip(result.query) # <<>>
    /\ ~result.embedding_ok
    /\ Len(Posts(result.search.trace)) = default_max_retries
    /\ result.response = NoInfoResponse

\* C8: an empty or whitespace-only query returns an empty list without a
\* request to the embedding backend and without a query of the index.
C8_BlankQueryTouchesNothing ==
    (called = "search_similar" /\ Strip(result.query) = <<>>) =>
        /\ result.status = "return"
        /\ result.value = <<>>
        /\ result.trace = <<>>
        /\ ~result.queried

\* a whitespace-only query on a non-empty index
C8_Witness ==
    /\ called = "search_similar"
    /\ result.query # <<>>
    /\ Strip(result.query) = <<>>
    /\ collection # <<>>
    /\ result.value = <<>>

\* C9: the results are in order of non-increasing similarity_score, and
\* each result's score is 1 minus the distance between the query vector and
\* the vector of the stored record it was built from.
C9_ResultsOrderedBySimilarity ==
    called = "search_similar" =>
        /\ \A i \in 1..Len(result.value) : \A j \in i..Len(result.value) :
               result.value[i].similarity_score >= result.value[j].similarity_score
        /\ \A i \in 1..Len(result.value) :
               \E k \in 1..Len(collection) :
                   /\ collection[k].document = result.value[i].text
                   /\ collection[k].metadata.filename = result.value[i].filename
                   /\ collection[k].metadata.page_number = result.value[i].page_number
                   /\ result.value[i].similarity_score
                        = 1 - Distance(collection[k].embedding, result.query_embedding)

\* two results at different distances, the nearer one first although it
\* was stored last
C9_Witness ==
    /\ called = "search_similar"
    /\ Len(result.value) >= 2
    /\ result.value[1].similarity_score > result.value[2].similarity_score
    /\ Distance(collection[1].embedding, result.query_embedding)
         > Distance(collection[Len(collection)].embedding, result.query_embedding)

\* C10 as stated: with a non-empty query and a healthy embedding backend
\* search_similar(query, k) returns exactly min(k, count()) results, and
\* chat uses at most MAX_CONTEXT_CHUNKS chunks.
C10_ReturnsMinOfKAndCount ==
    /\ (called = "search_similar" /\ Strip(result.query) # <<>> /\ result.embedding_ok) =>
          Len(result.value) = Min(result.n_results, Len(collection))
    /\ called = "chat" => Len(result.used_chunks) <= MAX_CONTEXT_CHUNKS

\* C10, amended: with a non-empty query, a healthy embedding backend and an
\* index query that does not fail, search_similar(query, k) returns exactly
\* min(k, count()) results (none on an empty index), and chat passes
\* exactly min(MAX_CONTEXT_CHUNKS, count()) chunks to the chat model.
C10_ReturnsMinOfKAndCountWhenIndexAnswers ==
    /\ (/\ called = "search_similar" /\ Strip(result.query) # <<>>
        /\ result.embedding_ok /\ result.index_ok) =>
          /\ result.status = "return"
          /\ Len(result.value) = Min(result.n_results, Len(collection))
    /\ called = "chat" =>
          /\ Len(result.used_chunks) <= MAX_CONTEXT_CHUNKS
          /\ result.completion_called =>
                Len(result.used_chunks) = Min(MAX_CONTEXT_CHUNKS, Len(collection))

\* a chat over an index of more than MAX_CONTEXT_CHUNKS records
C10_Witness ==
    /\ called = "chat"
    /\ Len(collection) > MAX_CONTEXT_CHUNKS
    /\ result.completion_called
    /\ Len(result.used_chunks) = MAX_CONTEXT_CHUNKS

(***************************************************************************)
(* Properties of deletion, clearing and the records of the collection.     *)
(***************************************************************************)
\* the records of coll that do not belong to file f
OtherFiles(coll, f) == SelectSeq(coll, LAMBDA r : r.metadata.filename # f)

\* C11 (as stated): every delete_documents_by_filename(f) call removes
\* every record of file f and no other record in one step and returns the
\* number removed, so that count() decreases by the returned value; when no
\* record matches it returns 0 and the records are unchanged.
C11_DeleteRemovesTheFile ==
    [][called' = "delete_documents_by_filename"
          => /\ collection' = OtherFiles(collection, result'.filename)
             /\ result'.value = Len(collection) - Len(collection')
             /\ (OtherFiles(collection, result'.filename) = collection
                    => result'.value = 0 /\ collection' = collection)]_vars

\* C11 (amended): when collection.get and collection.delete do not fail,
\* delete_documents_by_filename(f) removes every record of file f and no
\* other in one step and returns the number removed; when one of them
\* fails, or no record matches, it returns 0 and the records are unchanged.
\* In every case count() decreases by the returned value.
C11_DeleteRemovesTheFileUnlessStorageFails ==
    [][called' = "delete_documents_by_filename"
          => /\ result'.value = Len(collection) - Len(collection')
             /\ IF result'.get_ok
                   /\ (result'.delete_ok
                          \/ OtherFiles(collection, result'.filename) = collection)
                THEN collection' = OtherFiles(collection, result'.filename)
                ELSE collection' = collection /\ result'.value = 0]_vars

\* both records of a file were deleted and the record of another file is left
C11_Witness ==
    /\ called = "delete_documents_by_filename"
    /\ result.value = 2
    /\ Len(collection) = 1
    /\ collection[1].metadata.filename # result.filename

\* C12: clear_collection returns normally exactly when the storage does not
\* fail, and raises otherwise; after it has returned the collection has no
\* record, so count is 0 and every query and every get by filename is
\* empty, and an add_documents call is then accepted, whatever the
\* dimension of its vectors.
C12_ClearEmptiesTheIndex ==
    [][called' = "clear_collection"
          => /\ result'.status = IF collection_live /\ result'.outcome = "ok"
                                 THEN "return" ELSE "raise"
             /\ result'.status = "return"
                   => /\ collection' = <<>>
                      /\ get_collection_stats(collection', collection_live') = 0
                      /\ \A f \in Filenames :
                            get_documents_by_filename(collection', f, collection_live')
                               = <<>>
                      /\ \A v \in Vectors : \A k \in ResultCounts :
                            search_similar(collection', dimension', <<"q">>, k,
                                           <<OkResponse(v)>>, collection_live').value
                               = <<>>
                      /\ \A c \in ChunkPool : \A v \in Vectors :
                            LET Added(r) == r.status = "return" /\ Len(r.collection) = 1
                            IN  Added(add_documents(collection', dimension', next_id',
                                                    <<c>>, <<<<OkResponse(v)>>>>,
                                                    collection_live'))]_vars

\* clear_collection returned after at least two records had been stored
C12_Witness ==
    /\ called = "clear_collection"
    /\ result.status = "return"
    /\ next_id >= 3
    /\ collection = <<>>

\* C14: no two records of the collection have the same filename, page
\* number and text.
C14_OneRecordPerChunk ==
    \A i, j \in 1..Len(collection) :
        (/\ collection[i].metadata.filename = collection[j].metadata.filename
         /\ collection[i].metadata.page_number = collection[j].metadata.page_number
         /\ collection[i].document = collection[j].document) => i = j

\* C15: in every step the records that stay in the collection keep their
\* id, text, metadata and vector and their order, no identifier comes back
\* for another record, and search_similar, get_documents_by_filename and
\* get_collection_stats leave the records as they are.
C15_RecordsAreNeverMutated ==
    [][/\ \A i \in 1..Len(collection) : \A j \in 1..Len(collection') :
             collection[i].id = collection'[j].id => collection[i] = collection'[j]
       /\ called' \in {"add_documents", "delete_documents_by_filename"}
             => \A j \in 1..Len(collection') :
                   \/ \E i \in 1..Len(collection) : collection[i] = collection'[j]
                   \/ collection'[j].id >= next_id
       /\ called' \in {"search_similar", "get_documents_by_filename",
                       "get_collection_stats"}
             => collection' = collection]_vars

\* a deletion left a record that was stored before a later one was added:
\* the collection holds records of two add_documents calls around a deletion
C15_Witness ==
    /\ called = "delete_documents_by_filename"
    /\ result.value >= 1
    /\ Len(collection) = 2
    /\ collection[1].id > 1
    /\ collection[2].id > collection[1].id + 1

(***************************************************************************)
(* Properties of ingestion.                                                *)
(***************************************************************************)
\* the sum of the token counts of the sentences, as chunk_text adds them up
RECURSIVE SumTokens(_, _)
SumTokens(tok, sentences) ==
    IF sentences = <<>> THEN 0
    ELSE count_tokens(tok, Head(sentences)) + SumTokens(tok, Tail(sentences))

\* C13: an add_documents call that returns adds as many records as it was
\* given chunks; given no chunk, whatever the state of the index,
\* add_documents returns without a request to the embedding backend and
\* leaves the index as it was; a page whose sentences together fit within
\* chunk_size gives one chunk holding all of them, with the default chunk
\* size and with every chunk size of the bounds, and ingesting a file of
\* one such page adds one record.
C13_AddCountsItsChunks ==
    [][/\ called' = "add_documents" =>
              /\ result'.chunks = chunks
              /\ result'.status = "return" =>
                     get_collection_stats(collection', TRUE)
                         = get_collection_stats(collection, TRUE) + Len(chunks)
              /\ (Len(chunks) = 1 /\ result'.status = "return") =>
                     Len(collection') = Len(collection) + 1
       /\ \A storage_ok \in BOOLEAN :
              LET Nothing(r) ==
                      /\ r.status = "return" /\ r.trace = <<>>
                      /\ r.collection = collection' /\ r.dimension = dimension'
                      /\ r.next_id = next_id'
              IN  Nothing(add_documents(collection', dimension', next_id', <<>>, <<>>,
                                        storage_ok))
       /\ (/\ called' = "chunk_text"
           /\ _split_into_sentences(text') # <<>>
           /\ SumTokens(tokenizer, _split_into_sentences(text')) <= chunk_size') =>
              /\ Len(chunks') = Len(chunks) + 1
              /\ chunks'[Len(chunks')].text = Join(_split_into_sentences(text'))
       /\ called' = "chunk_text" =>
              \A size \in 1..MaxChunkSize : \A ov \in 0..MaxOverlap :
                  (/\ _split_into_sentences(text') # <<>>
                   /\ SumTokens(tokenizer, _split_into_sentences(text')) <= size) =>
                      LET One(cs) ==
                              /\ Len(cs) = 1
                              /\ cs[1].text = Join(_split_into_sentences(text'))
                      IN  One(chunk_text(tokenizer, text', PageMeta, size, ov).chunks)]_vars

\* a file of one page of two sentences, which fit, was ingested as one
\* chunk into an index that held a record
C13_Witness ==
    /\ called = "add_documents"
    /\ result.status = "return"
    /\ Len(Sentences) = 2
    /\ SumTokens(tokenizer, Sentences) <= chunk_size
    /\ Len(chunks) = 1
    /\ Len(collection) = 2

\* C16: after a file was ingested, get_documents_by_filename of the file
\* ends with the chunks of its pages, with the text, token count, filename,
\* page number and filepath chunk_text gave them, and search_similar
\* returns each of them with these values when it asks for at least as many
\* results as there are records; the text is the chunk's, not the text
\* _clean_text made of it for the embedding backend.
C16_ProvenanceRoundTrip ==
    /\ (called = "get_documents_by_filename" /\ result.ingested /\ result.get_ok
            /\ chunks # <<>> /\ result.filename = chunks[1].filename) =>
           /\ Len(result.value) >= Len(chunks)
           /\ LastSlice(result.value, Len(chunks)) = chunks
    /\ (called = "search_similar" /\ result.ingested /\ result.embedding_ok
            /\ result.index_ok /\ result.n_results >= Len(collection)) =>
           \A i \in 1..Len(chunks) : \E k \in 1..Len(result.value) :
               /\ result.value[k].text = chunks[i].text
               /\ result.value[k].filename = chunks[i].filename
               /\ result.value[k].page_number = chunks[i].page_number
               /\ result.value[k].filepath = chunks[i].filepath
               /\ result.value[k].tokens = chunks[i].tokens

\* the chunks of a file whose first page has a text that _clean_text
\* changes were ingested where the index held a record of the file, and
\* were read back
C16_Witness ==
    /\ called = "get_documents_by_filename"
    /\ result.ingested /\ result.get_ok
    /\ chunks # <<>>
    /\ result.filename = chunks[1].filename
    /\ chunks[1].text # _clean_text(chunks[1].text)
    /\ Len(result.value) > Len(chunks)

\* the records a call of upload_pdfs is to add: for every path that exists
\* and is a PDF, and whose reading, embedding and storage succeeded, the
\* chunks of that file, whatever happened to the other files
ExpectedOfFile(file, run, own_chunks) ==
    IF /\ file.exists /\ file.is_pdf /\ run.extraction_ok
       /\ (run.fail_at = 0 \/ run.fail_at > Len(own_chunks))
       /\ run.storage_ok /\ collection_live
    THEN own_chunks
    ELSE <<>>

ExpectedOfUpload(r) ==
    Flatten([i \in 1..Len(r.pdf_paths) |->
                ExpectedOfFile(r.pdf_paths[i], r.runs[i],
                               process_pdf(tokenizer, r.pdf_paths[i], TRUE).chunks)])

\* C17: upload_pdfs returns without an exception, shows an outcome for
\* every path that exists and is a PDF, and adds to the index, in the order
\* of the paths, exactly the chunks of the files whose reading, embedding
\* and storage succeeded; a file that failed adds nothing and the files
\* after it are processed as if it had not been there.
C17_EveryValidFileIsProcessed ==
    [][called' = "upload_pdfs" =>
          /\ result'.status = "return"
          /\ Len(result'.outcomes) = Len(ValidPaths(result'.pdf_paths))
          /\ FormatDocuments(collection')
                 = FormatDocuments(collection) \o ExpectedOfUpload(result')]_vars

\* the first file of an upload failed at its second chunk, after the first
\* had been embedded, and the second file was added
C17_Witness ==
    /\ called = "upload_pdfs"
    /\ Len(result.outcomes) = 2
    /\ result.outcomes[1].outcome = "failed"
    /\ result.runs[1].extraction_ok /\ result.runs[1].fail_at = 2
    /\ result.outcomes[2].outcome = "processed"
    /\ Len(collection) >= 1

(***************************************************************************)
(* Properties of the conversation log and of streamed answers.             *)
(***************************************************************************)
\* the messages of every session are a user message, an assistant message,
\* a user message, ...
Alternates(hist) ==
    \A i \in 1..Len(hist) : \A k \in 1..Len(hist[i].messages) :
        hist[i].messages[k].role = IF k % 2 = 1 THEN "user" ELSE "assistant"

\* C18: a chat call made while the current session is in the history, and
\* a stream_chat call begun in such a session and consumed to its end,
\* return without an exception and append two messages to the log of that
\* session: the user's query, then one assistant message, which is the
\* error response when the chat completion failed; a chat call appends
\* nothing anywhere else, and a log that alternated user, assistant still
\* alternates.
C18_ChatLogsOneExchange ==
    [][/\ (called' = "chat" /\ FindSession(history, current_session_id) # 0) =>
              LET Logged(i, n) ==
                      /\ Len(history') = Len(history)
                      /\ \A j \in 1..Len(history) : j # i => history'[j] = history[j]
                      /\ history'[i].id = history[i].id
                      /\ Len(history'[i].messages) = n + 2
                      /\ SubSeq(history'[i].messages, 1, n) = history[i].messages
                      /\ history'[i].messages[n + 1]
                             = [role |-> "user", content |-> result'.query,
                                sources |-> <<>>]
                      /\ history'[i].messages[n + 2].role = "assistant"
                      /\ (result'.completion_called /\ ~result'.llm_ok) =>
                             /\ history'[i].messages[n + 2].content
                                    = ErrorResponse("completion failed")
                             /\ history'[i].messages[n + 2].sources = <<>>
                  InSession(i) == Logged(i, Len(history[i].messages))
              IN  /\ result'.status = "return"
                  /\ InSession(FindSession(history, current_session_id))
                  /\ Alternates(history) => Alternates(history')
       /\ (/\ called' = "next" /\ result'.status \in {"stop", "raise"}
           /\ result'.logged # <<>>) =>
              /\ result'.status = "stop"
              /\ Len(result'.logged) = 2
              /\ result'.logged[1]
                     = LogEntry(result'.started_in, "user", result'.query)
              /\ result'.logged[2].session_id = result'.started_in
              /\ result'.logged[2].role = "assistant"
              /\ (result'.completion_called /\ ~result'.llm_ok) =>
                     result'.logged[2].content = ErrorResponse("completion failed")]_vars

\* C19: when the stream of the chat model ends with a chunk that has
\* done = true, the last element the consumer of stream_chat receives has
\* done = true and no earlier element has.
C19_StreamEndsWithDone ==
    (/\ called = "next" /\ result.status = "stop"
     /\ ~result.stream.raises /\ result.stream.chunks # <<>>
     /\ result.stream.chunks[Len(result.stream.chunks)].done) =>
        /\ result.yielded # <<>>
        /\ result.yielded[Len(result.yielded)].done
        /\ \A k \in 1..(Len(result.yielded) - 1) : ~result.yielded[k].done

\* C20: add_message with an id that no session has raises and leaves the
\* history as it was; with an id that a session has it returns, appends
\* the message at the end of the log of one session with that id, and
\* changes no other message, no other session and not the list of sessions.
C20_AddMessageNeedsTheSession ==
    [][called' = "add_message" =>
          IF \A i \in 1..Len(history) : history[i].id # result'.session_id
          THEN /\ result'.status = "raise"
               /\ history' = history
          ELSE /\ result'.status = "return"
               /\ Len(history') = Len(history)
               /\ \E i \in 1..Len(history) :
                      /\ history[i].id = result'.session_id
                      /\ history'[i].id = history[i].id
                      /\ history'[i].name = history[i].name
                      /\ history'[i].messages
                             = Append(history[i].messages,
                                      [role |-> result'.role,
                                       content |-> result'.content, sources |-> <<>>])
                      /\ \A j \in 1..Len(history) : j # i => history'[j] = history[j]]_vars

\* a message for an id that no session has was refused while two sessions
\* existed, one of them with a message
C20_Witness ==
    /\ called = "add_message"
    /\ result.status = "raise"
    /\ Len(history) = 2
    /\ history[1].id # history[2].id
    /\ history[2].messages # <<>>

(***************************************************************************)
(* The chunker applied to pages that spell a special token of the          *)
(* tokenizer, and to the short pages without one.                          *)
(***************************************************************************)
\* what stands before and after the token on the page
AroundTexts == {Flatten(q) : q \in AtomSeqs(MaxAround)}

SpecialTexts == {pre \o EndOfText \o post : pre \in AroundTexts, post \in AroundTexts}

InitSpecial ==
    /\ tokenizer \in {"exact", "fallback"}
    /\ text \in SpecialTexts \cup AroundTexts
    /\ chunk_size \in 1..MaxChunkSize
    /\ overlap \in 0..MaxOverlap
    /\ chunks = <<>> /\ overlap_texts = <<>>
    /\ EmbedIdle /\ StoreIdle
    /\ called = "none"

SpecSpecial == InitSpecial /\ [][NextChunk]_vars

\* C22: for every text and every chunk_size and overlap with
\* 0 < overlap < chunk_size, chunk_text returns and does not raise; it
\* returns the empty list for an empty or whitespace-only text, and no
\* chunk it returns has an empty text.
C22_ReturnsWithoutRaising ==
    (called = "chunk_text" /\ 0 < overlap /\ overlap < chunk_size) =>
        /\ result.status = "return"
        /\ Strip(text) = <<>> => chunks = <<>>
        /\ \A i \in 1..Len(chunks) : chunks[i].text # <<>>

(***************************************************************************)
(* Properties of the delays between the embedding calls of a batch.        *)
(***************************************************************************)
Delays(trace) == {k \in 1..Len(trace) : trace[k].ev = "delay"}

\* the requests of the trace that follow position k, up to the next delay
RECURSIVE PostsUntilDelay(_, _)
PostsUntilDelay(trace, k) ==
    IF k > Len(trace) \/ trace[k].ev = "delay" THEN <<>>
    ELSE IF trace[k].ev = "post" THEN <<trace[k]>> \o PostsUntilDelay(trace, k + 1)
    ELSE PostsUntilDelay(trace, k + 1)

\* C26: when add_documents has embedded a batch of n >= 1 chunks, it has
\* made exactly n-1 delays of 100 ms: each one comes right after the
\* request that answered a chunk and right before the first request for the
\* next chunk, and none follows the request that answered the last chunk.
C26_DelaysBetweenEmbeddings ==
    (/\ called = "add_documents"
     /\ Len(result.chunks) >= 1
     /\ Len(result.embeddings) = Len(result.chunks)) =>
        LET trace == result.trace
            n == Len(result.chunks)
        IN  /\ Cardinality(Delays(trace)) = n - 1
            /\ trace[Len(trace)].ev = "post"
            /\ \A k \in Delays(trace) :
                   /\ trace[k] = DelayEvent
                   /\ trace[k].millis = 100
                   /\ 1 < k /\ k < Len(trace)
                   /\ trace[k - 1].ev = "post" /\ trace[k + 1].ev = "post"
                   /\ LET j == Cardinality({m \in Delays(trace) : m <= k})
                      IN  /\ trace[k - 1].prompt = _clean_text(result.chunks[j].text)
                          /\ \A q \in 1..Len(PostsUntilDelay(trace, k + 1)) :
                                 PostsUntilDelay(trace, k + 1)[q].prompt
                                     = _clean_text(result.chunks[j + 1].text)

\* a batch of two chunks stored after the second one was embedded at a
\* retry: one delay, between the two embedding calls
C26_Witness ==
    /\ called = "add_documents"
    /\ result.status = "return"
    /\ Len(result.chunks) = 2
    /\ Cardinality(Delays(result.trace)) = 1
    /\ Len(Sleeps(result.trace)) >= 1
    /\ result.trace[Len(result.trace) - 1].ev = "sleep"

(***************************************************************************)
(* Properties of the ways _get_embedding ends.                             *)
(***************************************************************************)
\* C30: for every max_retries >= 0 a call of _get_embedding either returns
\* the embedding of a successful response of the backend or raises; it
\* never returns without an embedding.  (With max_retries = 0 the loop body
\* never runs and the call returns None.)
C30_EmbeddingOrRaise ==
    called = "_get_embedding" =>
        \/ embed_out.status = "raise"
        \/ /\ embed_out.status = "return"
           /\ Posts(embed_out.trace) # <<>>
           /\ embed_in.script[Len(Posts(embed_out.trace))].kind = "ok"
           /\ embed_out.value = embed_in.script[Len(Posts(embed_out.trace))].embedding

(***************************************************************************)
(* The embedding client on long texts: texts around the limit of           *)
(* max_length characters, with periods and spaces at chosen places of the  *)
(* window, and short texts with unsafe characters.                         *)
(***************************************************************************)
MaxExcess == 2

\* a text of n characters: "." at the positions of periods, " " at the
\* positions of spaces, "#" at those of unsafe, "a" elsewhere; positions
\* count from 0 as in Python
Fill(n, periods, spaces, unsafe) ==
    [i \in 1..n |-> IF (i - 1) \in periods THEN "."
                    ELSE IF (i - 1) \in spaces THEN " "
                    ELSE IF (i - 1) \in unsafe THEN "#"
                    ELSE "a"]

\* the first position of the last 20% of the window
TailStart == (max_length * 8) \div 10

LongLengths == {max_length, max_length + 1, max_length + MaxExcess}

PeriodSets ==
    {{}, {TailStart - 1}, {TailStart}, {TailStart + 1}, {max_length - 1},
     {max_length}, {TailStart \div 2, TailStart + 50, TailStart + 100}}

SpaceSets == {{}, {0, max_length - 1}, {TailStart + 101, TailStart + 102}}

UnsafeSets == {{}, {TailStart + 103}}

LongTexts ==
    {Fill(n, ps, sp, un) : n \in LongLengths, ps \in PeriodSets, sp \in SpaceSets,
                           un \in UnsafeSets}

ShortTexts ==
    EmbedTexts \cup {<<"a", "#", " ", "b">>, <<"a", "#", "#", "b">>, <<"#", "a", "_", "1">>,
                     <<"a", " ", "\t", "b", ",">>}

\* the backend fails k times, then answers
FailingThenOk(k) ==
    [i \in 1..MaxRetries |-> IF i <= k THEN FailResponse("timeout") ELSE OkResponse(<<0>>)]

CleanScripts == {FailingThenOk(k) : k \in 0..MaxRetries}

InitClean ==
    /\ embed_in \in [text : LongTexts \cup ShortTexts, max_retries : 1..MaxRetries,
                      script : CleanScripts]
    /\ embed_out = Idle
    /\ ChunkerIdle /\ StoreIdle
    /\ called = "none"

NextClean == GetEmbedding

SpecClean == InitClean /\ [][NextClean]_vars

(***************************************************************************)
(* Properties of the text sent to the embedding backend.                   *)
(***************************************************************************)
\* C23: the text _clean_text returns is at most 1000 characters long, and
\* it is the prompt of every request _get_embedding sends, at the first
\* attempt and at every retry.
C23_PromptAtMost1000 ==
    called = "_get_embedding" =>
        /\ Len(_clean_text(embed_in.text)) <= 1000
        /\ Posts(embed_out.trace) # <<>>
        /\ \A k \in 1..Len(embed_out.trace) :
               embed_out.trace[k].ev = "post" =>
                   /\ embed_out.trace[k].prompt = _clean_text(embed_in.text)
                   /\ Len(embed_out.trace[k].prompt) <= 1000

\* a text of more than 1000 characters sent twice, at the first attempt
\* and at a retry, as a prompt of exactly 1000 characters
C23_Witness ==
    /\ called = "_get_embedding"
    /\ Len(embed_in.text) > 1000
    /\ Len(Posts(embed_out.trace)) >= 2
    /\ \A k \in 1..Len(Posts(embed_out.trace)) :
           Len(Posts(embed_out.trace)[k].prompt) = 1000

\* the text after the two substitutions of _clean_text
Substituted(s) == ReplaceUnsafe(CollapseWhitespace(s))

\* the positions, counted from 0, of the periods in the last 20% of the
\* window w, the first max_length characters of the text
TailPeriods(w) == {i \in TailStart..(max_length - 1) : w[i + 1] = "."}

\* what C27 says of the window w and the text clean returned for it
EndsAtLastTailPeriod(w, clean) ==
    LET Ends(periods) ==
            IF periods # {}
            THEN /\ clean = Strip(SubSeq(w, 1, SetMax(periods) + 1))
                 /\ clean[Len(clean)] = "."
            ELSE clean = Strip(w)
    IN  Ends(TailPeriods(w))

\* C27: when the text is longer than 1000 characters after the
\* substitutions and its 1000-character window has a period in its last 20%
\* (positions 800 to 999), the result is the window up to the last such
\* period, stripped, and so ends with that period and not inside a word;
\* when there is no such period the result is the stripped window.
C27_TruncatesAtLastPeriod ==
    (/\ called = "_get_embedding"
     /\ Len(Substituted(embed_in.text)) > max_length) =>
        EndsAtLastTailPeriod(SubSeq(Substituted(embed_in.text), 1, max_length),
                             _clean_text(embed_in.text))

SafeChars == WordChars \cup {" "} \cup SafePunct

\* C28: the text _clean_text returns, and so every prompt sent, contains
\* only word characters, single spaces and the listed punctuation, and no
\* two consecutive whitespace characters.
C28_SafeCharsSingleSpaces ==
    called = "_get_embedding" =>
        \A k \in 1..Len(embed_out.trace) :
            embed_out.trace[k].ev = "post" =>
                LET prompt == embed_out.trace[k].prompt
                IN  /\ \A i \in 1..Len(prompt) : prompt[i] \in SafeChars
                    /\ \A i \in 1..(Len(prompt) - 1) :
                           ~(IsSpace(prompt[i]) /\ IsSpace(prompt[i + 1]))

(***************************************************************************)
(* Properties of the context given to the chat model.                      *)
(***************************************************************************)
\* the places of the text s where the text p starts, counted from 0
Occurrences(p, s) == {k \in 0..(Len(s) - Len(p)) : SubSeq(s, k + 1, k + Len(p)) = p}

\* the entry of the i-th chunk found: its number, filename, page and text
ContextEntry(i, chunk) ==
    <<"Document ">> \o Decimal(i) \o <<" ", "[Source: ", chunk.filename, ", Page ">>
        \o Decimal(chunk.page_number) \o <<"]", ":", "\n">> \o chunk.text

\* the context lists the chunks found, numbered from 1 in rank order, each
\* with its filename and page number
NumberedContext(found, context) ==
    /\ Cardinality({k \in 1..Len(context) : context[k] = "Document "}) = Len(found)
    /\ \A i \in 1..Len(found) : Occurrences(ContextEntry(i, found[i]), context) # {}
    /\ Occurrences(ContextEntry(1, found[1]), context) = {0}
    /\ \A i \in 1..(Len(found) - 1) :
           SetMin(Occurrences(ContextEntry(i, found[i]), context))
               < SetMin(Occurrences(ContextEntry(i + 1, found[i + 1]), context))

\* C24 as stated: when the search of chat finds no chunks, the context
\* assembled for the chat model is "No relevant documents found."; when it
\* finds chunks, the context lists them numbered from 1 in rank order, each
\* with its filename and page number.
C24_SentinelWhenNoChunks ==
    (called = "chat" /\ result.search.status = "return") =>
        IF result.search.value = <<>>
        THEN result.context = NoRelevantDocuments
        ELSE NumberedContext(result.search.value, result.context)

\* C24, amended: _format_context returns "No relevant documents found."
\* for an empty list of chunks, but chat does not call it then: when the
\* search finds no chunks no context is assembled, the chat model is not
\* called and the response is the fixed no-information text; when it finds
\* chunks, the context lists them numbered from 1 in rank order, each with
\* its filename and page number.
C24_ContextOnlyWithChunks ==
    /\ _format_context(<<>>) = NoRelevantDocuments
    /\ (called = "chat" /\ result.search.status = "return") =>
           IF result.search.value = <<>>
           THEN /\ result.context = NoContext
                /\ ~result.completion_called
                /\ result.response = NoInfoResponse
           ELSE NumberedContext(result.search.value, result.context)

\* a chat whose search found chunks of two files and of two pages,
\* answered by the chat model
C24_Witness ==
    /\ called = "chat" /\ result.status = "return"
    /\ result.completion_called /\ ~result.error
    /\ Len(result.search.value) >= 3
    /\ \E i, j \in 1..Len(result.search.value) :
           result.search.value[i].filename # result.search.value[j].filename
    /\ \E i, j \in 1..Len(result.search.value) :
           result.search.value[i].page_number # result.search.value[j].page_number
    /\ result.context # NoContext

\* a chat whose search of the index, for a question that is not blank,
\* found nothing
C24_WitnessNoChunks ==
    /\ called = "chat" /\ result.status = "return"
    /\ result.search.queried
    /\ result.search.value = <<>>
    /\ result.context = NoContext

(***************************************************************************)
(* Properties of the order of the steps of an upload.                      *)
(***************************************************************************)
\* the chunks of the call are those of the pages of the file, page after
\* page: the page numbers never decrease, and the chunks of page p are
\* what chunk_text makes of the stripped text of page p
ChunksInPageOrder(tok, file, call_chunks) ==
    /\ \A a, b \in 1..Len(call_chunks) :
           a < b => call_chunks[a].page_number <= call_chunks[b].page_number
    /\ \A a \in 1..Len(call_chunks) : call_chunks[a].page_number \in 1..Len(file.pages)
    /\ \A p \in 1..Len(file.pages) :
           SelectSeq(call_chunks, LAMBDA c : c.page_number = p)
               = chunk_text(tok, Strip(file.pages[p]),
                            [page_number |-> p, filename |-> file.name,
                             filepath |-> file.path],
                            CHUNK_SIZE, CHUNK_OVERLAP).chunks

\* the requests of the call are made chunk after chunk, a delay apart, and
\* collection.add is called at most once, as the last step, after the
\* request that answered the last chunk, with all the chunks
EmbeddedThenWritten(call) ==
    LET events == call.events
        adds == {k \in 1..Len(events) : events[k].ev = "add"}
    IN  /\ Cardinality(Delays(events)) <= Len(call.chunks) - 1
        /\ \A k \in 1..Len(events) :
               events[k].ev = "post" =>
                   events[k].prompt
                       = _clean_text(call.chunks[1 + Cardinality({d \in Delays(events) :
                                                                    d < k})].text)
        /\ adds = {} => call.status = "raise"
        /\ adds # {} =>
               /\ adds = {Len(events)}
               /\ events[Len(events)].records = Len(call.chunks)
               /\ events[Len(events) - 1].ev = "post"
               /\ Cardinality(Delays(events)) = Len(call.chunks) - 1

\* C25: in an upload, add_documents is called once for every valid file
\* that yields chunks, in the order of the files, and not for a file that
\* cannot be read or yields none; the chunks of a call are those of the
\* pages in page order; the embeddings are requested one chunk at a time in
\* chunk order, and the single storage write of the call comes after the
\* last embedding has succeeded.
C25_OneAddPerFileInOrder ==
    called = "upload_pdfs" =>
        LET calls == result.calls
            paths == result.pdf_paths
            valid == ValidPaths(paths)
        IN  /\ \A a, b \in 1..Len(calls) : a < b => calls[a].path < calls[b].path
            /\ \A k \in 1..Len(valid) :
                   (\E c \in 1..Len(calls) : calls[c].path = valid[k])
                       <=> /\ result.runs[valid[k]].extraction_ok
                           /\ \E p \in 1..Len(paths[valid[k]].pages) :
                                  Strip(paths[valid[k]].pages[p]) # <<>>
            /\ \A c \in 1..Len(calls) :
                   /\ \E k \in 1..Len(valid) : calls[c].path = valid[k]
                   /\ calls[c].chunks # <<>>
                   /\ ChunksInPageOrder(tokenizer, paths[calls[c].path], calls[c].chunks)
                   /\ EmbeddedThenWritten(calls[c])
                   /\ (\E k \in 1..Len(calls[c].events) : calls[c].events[k].ev = "add")
                          <=> result.runs[calls[c].path].fail_at = 0

\* an upload of a file whose chunks come from two pages, stored with one
\* write after both were embedded, and of a file without text, for which
\* add_documents was not called
C25_Witness ==
    /\ called = "upload_pdfs"
    /\ Len(result.pdf_paths) = 2
    /\ Len(result.outcomes) = 2
    /\ result.outcomes[1].outcome = "processed"
    /\ result.outcomes[2].outcome = "no_text"
    /\ Len(result.calls) = 1
    /\ Len(result.calls[1].chunks) = 2
    /\ result.calls[1].chunks[1].page_number < result.calls[1].chunks[2].page_number
    /\ result.calls[1].events[Len(result.calls[1].events)].ev = "add"

(***************************************************************************)
(* HistoryManager: sessions are created, imported and deleted, messages    *)
(* are appended, and the history is cleared, by itself or together with    *)
(* the store, while the clock advances.                                    *)
(***************************************************************************)
NextSessions ==
    \/ StartSession \/ LoadSession \/ ImportSession \/ DeleteSession \/ ClearAllHistory
    \/ ClearData \/ AddMessage \/ Tick \/ Prompt

SpecSessions == Init /\ [][NextSessions]_vars

(***************************************************************************)
(* Properties of the session ids.                                          *)
(***************************************************************************)
\* C29: after any sequence of create_session, import_session,
\* delete_session and clear_all_history calls, two create_session calls
\* within one second included, the sessions of the history have pairwise
\* distinct ids.
C29_SessionIdsDistinct ==
    \A i, j \in 1..Len(history) : i # j => history[i].id # history[j].id

====
